---------------------------- MODULE Spec2Model ----------------------------
(***************************************************************************)
(* kore architecture pipeline: text -> ArchitectureParser.parse ->         *)
(* ArchitectureLayout.layout -> LottieRenderer.render.                     *)
(*                                                                         *)
(* Conventions of the model                                                *)
(*  - a Python str is a sequence of one-character strings; None (and the   *)
(*    empty string, which no capture group of the parser can produce) is   *)
(*    the empty sequence, so "if x.label:" is "x.label # None";            *)
(*  - a Python dict is a sequence of records with pairwise distinct ids,   *)
(*    in insertion order (re-assigning a key keeps its place);             *)
(*  - a Python set is a TLA+ set and iterating it is a nondeterministic    *)
(*    choice of the next element;                                          *)
(*  - pixel coordinates are integers: with the default configurations      *)
(*    every division by 2 in the code is exact.                            *)
(***************************************************************************)
EXTENDS Integers, Sequences, FiniteSets, TLC

VARIABLES
    stage,        \* where the pipeline run is: "parse", "layout", "render"
    text,         \* parse(): the lines of the input not yet processed
    layer_order,  \* parse(): the local layer_order
    parsed,       \* history: the lines processed, each with the diagram before it
    diagram,      \* the ArchitectureDiagram instance of the pipeline run
    input,        \* the diagram as handed to layout() (before any mutation)
    lpc,          \* layout(): "start", "grid", "groups", "layers", "done"
    adj,          \* layout(): adjacency lists, id -> [(neighbor, own port, its port)]
    grid_pos,     \* _assign_grid_positions: id -> (row, col)
    visited,      \* _assign_grid_positions: visited
    occupied,     \* _assign_grid_positions: occupied
    queue,        \* _assign_grid_positions: the BFS queue of (id, row, col)
    cur,          \* _assign_grid_positions: the dequeued node and the index of
                  \* its next adjacency entry (empty: no node in hand)
    gi,           \* _calculate_group_bounds: index of the next group
    placed,       \* history: the grid assignments in the order they were made
    origin,       \* history: start_node of the run (None without nodes)
    run,          \* history: number of the layout() run on this input
    first,        \* history: origin, grid and result of the first run
    lay,          \* _layout_layered: layers, loop index, y_offset, area width
    config,       \* LottieConfig of the renderer(s): fps, duration
    layer_idx,    \* LottieRenderer.layer_idx, one per renderer instance
    rc,           \* the render() calls: position in render(), local layers
    returned      \* documents returned by render(), in return order

parseVars == <<text, layer_order, parsed>>

gridVars == <<adj, grid_pos, visited, occupied, queue, cur, placed, origin>>

layoutVars == <<input, lpc, gridVars, gi, run, first, lay>>

renderVars == <<config, layer_idx, rc, returned>>

vars == <<stage, parseVars, diagram, layoutVars, renderVars>>

-----------------------------------------------------------------------------
(* Bounds of the model *)

MaxServices == 2
MaxEdges == 2
MaxGraphEdges == 4
MaxCalls == 2
MaxDurationHalves == 2

-----------------------------------------------------------------------------
(* Strings *)

None == <<>>

\* The documented icon vocabulary ("Supported icons"): each keyword as its
\* sequence of characters.
ICON ==
    [ cloud |-> <<"c","l","o","u","d">>,
      server |-> <<"s","e","r","v","e","r">>,
      database |-> <<"d","a","t","a","b","a","s","e">>,
      disk |-> <<"d","i","s","k">>,
      storage |-> <<"s","t","o","r","a","g","e">>,
      brain |-> <<"b","r","a","i","n">>,
      neural |-> <<"n","e","u","r","a","l">>,
      ai |-> <<"a","i">>,
      api |-> <<"a","p","i">>,
      sensor |-> <<"s","e","n","s","o","r">>,
      logs |-> <<"l","o","g","s">>,
      search |-> <<"s","e","a","r","c","h">>,
      query |-> <<"q","u","e","r","y">>,
      wifi |-> <<"w","i","f","i">>,
      globe |-> <<"g","l","o","b","e">>,
      web |-> <<"w","e","b">>,
      gear |-> <<"g","e","a","r">>,
      cog |-> <<"c","o","g">>,
      settings |-> <<"s","e","t","t","i","n","g","s">>,
      tools |-> <<"t","o","o","l","s">>,
      lightbulb |-> <<"l","i","g","h","t","b","u","l","b">>,
      idea |-> <<"i","d","e","a">>,
      output |-> <<"o","u","t","p","u","t">>,
      decision |-> <<"d","e","c","i","s","i","o","n">>,
      loop |-> <<"l","o","o","p">>,
      error |-> <<"e","r","r","o","r">>,
      check |-> <<"c","h","e","c","k">>,
      box |-> <<"b","o","x">>,
      node |-> <<"n","o","d","e">> ]

ICONS == { ICON[k] : k \in DOMAIN ICON }

-----------------------------------------------------------------------------
(* Diagram model *)

Range(s) == { s[i] : i \in DOMAIN s }

Keys(d) == { d[i].id : i \in DOMAIN d }

\* d[key], for key in d
Lookup(d, key) == d[CHOOSE i \in DOMAIN d : d[i].id = key]

Service(id, icon, label, parent) ==
    [id |-> id, icon |-> icon, label |-> label, parent |-> parent,
     x |-> 0, y |-> 0, width |-> 80, height |-> 80]

Junction(id, parent) ==
    [id |-> id, parent |-> parent, x |-> 0, y |-> 0, width |-> 20, height |-> 20]

Group(id, icon, label, parent) ==
    [id |-> id, icon |-> icon, label |-> label, parent |-> parent,
     x |-> 0, y |-> 0, width |-> 0, height |-> 0]

Layer(id, icon, label, order) ==
    [id |-> id, icon |-> icon, label |-> label, order |-> order,
     x |-> 0, y |-> 0, width |-> 0, height |-> 0]

Edge(source_id, source_dir, target_id, target_dir, has_arrow) ==
    [source_id |-> source_id, source_dir |-> source_dir,
     target_id |-> target_id, target_dir |-> target_dir,
     label |-> None, has_arrow |-> has_arrow]

ArchitectureDiagram ==
    [groups |-> <<>>, services |-> <<>>, junctions |-> <<>>,
     edges |-> <<>>, layers |-> <<>>]

\* get_node(node_id) is not None
Resolves(d, node_id) ==
    \/ node_id \in Keys(d.services)
    \/ node_id \in Keys(d.junctions)
    \/ node_id \in Keys(d.groups)
    \/ node_id \in Keys(d.layers)

\* get_node(node_id), for an id that resolves: services first, then
\* junctions, groups, layers
get_node(d, node_id) ==
    IF node_id \in Keys(d.services) THEN Lookup(d.services, node_id)
    ELSE IF node_id \in Keys(d.junctions) THEN Lookup(d.junctions, node_id)
    ELSE IF node_id \in Keys(d.groups) THEN Lookup(d.groups, node_id)
    ELSE Lookup(d.layers, node_id)

-----------------------------------------------------------------------------
(* ArchitectureParser: the five patterns, matched as re.match does (at the *)
(* start of the line, greedy, the tail of the line left unread)            *)

\* \w, for the characters of the model's texts
WordChars ==
    { "a","b","c","d","e","f","g","h","i","j","k","l","m",
      "n","o","p","q","r","s","t","u","v","w","x","y","z",
      "A","B","C","D","E","F","G","H","I","J","K","L","M",
      "N","O","P","Q","R","S","T","U","V","W","X","Y","Z",
      "0","1","2","3","4","5","6","7","8","9","_" }

\* \s and the characters str.strip() removes
SpaceChars == { " ", "\t", "\r", "\n" }

\* the keywords of the syntax
KEYWORD ==
    [ architecture |-> <<"a","r","c","h","i","t","e","c","t","u","r","e">>,
      layer |-> <<"l","a","y","e","r">>,
      group |-> <<"g","r","o","u","p">>,
      service |-> <<"s","e","r","v","i","c","e">>,
      junction |-> <<"j","u","n","c","t","i","o","n">> ]

W_in == <<"i","n">>

\* the index after the longest run of characters of class that starts at
\* s[i] (i itself when the run is empty)
RECURSIVE RunOf(_, _, _)
RunOf(s, i, class) ==
    IF i <= Len(s) /\ s[i] \in class THEN RunOf(s, i + 1, class) ELSE i

\* the index of the first stop at or after s[i], Len(s) + 1 without one
RECURSIVE RunUntil(_, _, _)
RunUntil(s, i, stop) ==
    IF i <= Len(s) /\ s[i] # stop THEN RunUntil(s, i + 1, stop) ELSE i

\* s has lit at index i (s.startswith(lit) for i = 1)
StartsWith(s, i, lit) ==
    /\ i + Len(lit) - 1 <= Len(s)
    /\ SubSeq(s, i, i + Len(lit) - 1) = lit

RECURSIVE rstrip(_)
rstrip(s) ==
    IF s # <<>> /\ s[Len(s)] \in SpaceChars
    THEN rstrip(SubSeq(s, 1, Len(s) - 1))
    ELSE s

\* str.strip()
strip(s) == rstrip(SubSeq(s, RunOf(s, 1, SpaceChars), Len(s)))

\* str.split(sep): always at least one piece
RECURSIVE split(_, _)
split(s, sep) ==
    LET j == RunUntil(s, 1, sep) IN
    IF j > Len(s)
    THEN << s >>
    ELSE << SubSeq(s, 1, j - 1) >> \o split(SubSeq(s, j + 1, Len(s)), sep)

\* an optional group that takes no part in the match: its capture is None
NoGroup(i) == [end |-> i, cap |-> None]

\* (?:\(([^)]+)\))? and (?:\[([^\]]+)\])? at s[i]: open, one or more
\* characters other than close, close
Bracketed(s, i, open, close) ==
    LET j == RunUntil(s, i + 1, close) IN
    IF i <= Len(s) /\ s[i] = open /\ j > i + 1 /\ j <= Len(s)
    THEN [end |-> j + 1, cap |-> SubSeq(s, i + 1, j - 1)]
    ELSE NoGroup(i)

\* (?:\s+in\s+(\w+))? at s[i]
InParent(s, i) ==
    LET a == RunOf(s, i, SpaceChars)
        b == a + Len(W_in)
        c == RunOf(s, b, SpaceChars)
        e == RunOf(s, c, WordChars)
    IN  IF a > i /\ StartsWith(s, a, W_in) /\ c > b /\ e > c
        THEN [end |-> e, cap |-> SubSeq(s, c, e - 1)]
        ELSE NoGroup(i)

\* keyword\s+(\w+) at the start of s; end = 0 when it does not match
Declared(s, keyword) ==
    LET a == Len(keyword) + 1
        b == RunOf(s, a, SpaceChars)
        e == RunOf(s, b, WordChars)
    IN  IF StartsWith(s, 1, keyword) /\ b > a /\ e > b
        THEN [end |-> e, cap |-> SubSeq(s, b, e - 1)]
        ELSE [end |-> 0, cap |-> None]

\* the result of pattern.match(line): matched, and match.groups()
NoMatch == [matched |-> FALSE, groups |-> <<>>]

PATTERN_LAYER(line) ==
    LET id == Declared(line, KEYWORD.layer)
        icon == Bracketed(line, id.end, "(", ")")
        label == Bracketed(line, icon.end, "[", "]")
    IN  IF id.end = 0 THEN NoMatch
        ELSE [matched |-> TRUE, groups |-> <<id.cap, icon.cap, label.cap>>]

\* the pattern of group and of service, which differ by their keyword
PatternEntity(line, keyword) ==
    LET id == Declared(line, keyword)
        icon == Bracketed(line, id.end, "(", ")")
        label == Bracketed(line, icon.end, "[", "]")
        parent == InParent(line, label.end)
    IN  IF id.end = 0 THEN NoMatch
        ELSE [matched |-> TRUE,
              groups |-> <<id.cap, icon.cap, label.cap, parent.cap>>]

PATTERN_GROUP(line) == PatternEntity(line, KEYWORD.group)

PATTERN_SERVICE(line) == PatternEntity(line, KEYWORD.service)

PATTERN_JUNCTION(line) ==
    LET id == Declared(line, KEYWORD.junction)
        parent == InParent(line, id.end)
    IN  IF id.end = 0 THEN NoMatch
        ELSE [matched |-> TRUE, groups |-> <<id.cap, parent.cap>>]

\* the values of the enum Direction, and the class [LRTB] of the pattern
DirectionValues == { "L", "R", "T", "B" }

\* (\w+):(D)\s*(--?>?)\s*(D):(\w+) for a class D of port letters
PatternEdge(s, D) ==
    LET a == RunOf(s, 1, WordChars)
        b == RunOf(s, a + 2, SpaceChars)
        c == IF b + 1 <= Len(s) /\ s[b + 1] = "-" THEN b + 2 ELSE b + 1
        d == IF c <= Len(s) /\ s[c] = ">" THEN c + 1 ELSE c
        e == RunOf(s, d, SpaceChars)
        f == RunOf(s, e + 2, WordChars)
    IN  IF /\ a > 1
           /\ a + 1 <= Len(s) /\ s[a] = ":" /\ s[a + 1] \in D
           /\ b <= Len(s) /\ s[b] = "-"
           /\ e + 1 <= Len(s) /\ s[e] \in D /\ s[e + 1] = ":"
           /\ f > e + 2
        THEN [matched |-> TRUE,
              groups |-> << SubSeq(s, 1, a - 1), s[a + 1], SubSeq(s, b, d - 1),
                            s[e], SubSeq(s, e + 2, f - 1) >>]
        ELSE NoMatch

\* the pattern with any word character as a port letter
PATTERN_EDGE_any_port(line) == PatternEdge(line, WordChars)

PATTERN_EDGE(line) == PatternEdge(line, DirectionValues)

\* d[rec.id] = rec: a key already in the dict keeps its place
DictSet(d, rec) ==
    IF rec.id \in Keys(d)
    THEN [k \in DOMAIN d |-> IF d[k].id = rec.id THEN rec ELSE d[k]]
    ELSE Append(d, rec)

\* The _parse_* methods return whether the line matched and change the
\* diagram in place: here the pair (matched, diagram after the call).
Unmatched(d) == [matched |-> FALSE, raised |-> FALSE, diagram |-> d]

parse_layer(line, d, order) ==
    LET match == PATTERN_LAYER(line) IN
    IF match.matched
    THEN [matched |-> TRUE, raised |-> FALSE,
          diagram |-> [d EXCEPT !.layers =
              DictSet(@, Layer(match.groups[1], match.groups[2],
                               match.groups[3], order))]]
    ELSE Unmatched(d)

parse_group(line, d) ==
    LET match == PATTERN_GROUP(line) IN
    IF match.matched
    THEN [matched |-> TRUE, raised |-> FALSE,
          diagram |-> [d EXCEPT !.groups =
              DictSet(@, Group(match.groups[1], match.groups[2],
                               match.groups[3], match.groups[4]))]]
    ELSE Unmatched(d)

parse_service(line, d) ==
    LET match == PATTERN_SERVICE(line) IN
    IF match.matched
    THEN [matched |-> TRUE, raised |-> FALSE,
          diagram |-> [d EXCEPT !.services =
              DictSet(@, Service(match.groups[1], match.groups[2],
                                 match.groups[3], match.groups[4]))]]
    ELSE Unmatched(d)

parse_junction(line, d) ==
    LET match == PATTERN_JUNCTION(line) IN
    IF match.matched
    THEN [matched |-> TRUE, raised |-> FALSE,
          diagram |-> [d EXCEPT !.junctions =
              DictSet(@, Junction(match.groups[1], match.groups[2]))]]
    ELSE Unmatched(d)

\* _parse_edge that puts the new edge in front of the list
parse_edge_prepend(line, d) ==
    LET match == PATTERN_EDGE(line) IN
    IF ~match.matched THEN Unmatched(d)
    ELSE [matched |-> TRUE, raised |-> FALSE,
          diagram |-> [d EXCEPT !.edges =
              << Edge(match.groups[1], match.groups[2],
                      match.groups[5], match.groups[4],
                      ">" \in Range(match.groups[3])) >> \o @]]

\* Direction(value) raises ValueError for a value that is not of the enum
parse_edge(line, d) ==
    LET match == PATTERN_EDGE(line) IN
    IF ~match.matched THEN Unmatched(d)
    ELSE IF match.groups[2] \notin DirectionValues
            \/ match.groups[4] \notin DirectionValues
    THEN [matched |-> TRUE, raised |-> TRUE, diagram |-> d]
    ELSE [matched |-> TRUE, raised |-> FALSE,
          diagram |-> [d EXCEPT !.edges =
              Append(@, Edge(match.groups[1], match.groups[2],
                             match.groups[5], match.groups[4],
                             ">" \in Range(match.groups[3])))]]

\* the body of the loop of parse() for one line of the text
parse_line(raw, d, order) ==
    LET line == strip(raw)
        Same == [raised |-> FALSE, diagram |-> d, layer_order |-> order]
        Into(r) == [raised |-> r.raised, diagram |-> r.diagram,
                    layer_order |-> order]
    IN  IF line = <<>> \/ line[1] = "#" THEN Same
        ELSE IF StartsWith(line, 1, KEYWORD.architecture) THEN Same
        ELSE IF parse_layer(line, d, order).matched
        THEN [Into(parse_layer(line, d, order)) EXCEPT !.layer_order = order + 1]
        ELSE IF parse_group(line, d).matched THEN Into(parse_group(line, d))
        ELSE IF parse_service(line, d).matched THEN Into(parse_service(line, d))
        ELSE IF parse_junction(line, d).matched THEN Into(parse_junction(line, d))
        ELSE IF parse_edge(line, d).matched THEN Into(parse_edge(line, d))
        ELSE Same

\* parse(text), as a function of the text: the loop over the lines
RECURSIVE parse_lines(_, _, _)
parse_lines(lines, d, order) ==
    IF lines = <<>> THEN d
    ELSE LET r == parse_line(Head(lines), d, order) IN
         parse_lines(Tail(lines), r.diagram, r.layer_order)

parse(raw) == parse_lines(split(strip(raw), "\n"), ArchitectureDiagram, 0)

\* parse(): one iteration of "for line in lines"
ParseLine ==
    /\ stage = "parse"
    /\ text # <<>>
    /\ LET r == parse_line(Head(text), diagram, layer_order) IN
       /\ stage' = IF r.raised THEN "raised" ELSE stage
       /\ diagram' = r.diagram
       /\ layer_order' = r.layer_order
    /\ parsed' = Append(parsed, [line |-> Head(text), before |-> diagram])
    /\ text' = Tail(text)
    /\ UNCHANGED <<layoutVars, renderVars>>

\* parse(): return diagram, which the caller hands to layout()
ParseReturn ==
    /\ stage = "parse"
    /\ text = <<>>
    /\ stage' = "layout"
    /\ input' = diagram
    /\ UNCHANGED <<parseVars, diagram, lpc, gridVars, gi, run, first, lay, renderVars>>

NextParse ==
    \/ ParseLine
    \/ ParseReturn

-----------------------------------------------------------------------------
(* LayoutConfig defaults *)

node_width == 80
node_height == 80
node_spacing_x == 120
node_spacing_y == 100
group_padding == 40
canvas_padding == 50

-----------------------------------------------------------------------------
(* ArchitectureLayout: the standard strategy *)

\* is_layered that asks for a second layer
is_layered_several(d) == Len(d.layers) > 1

\* is_layered: len(self.layers) > 0
is_layered(d) == Len(d.layers) > 0

\* get_children: services, then junctions, then groups whose parent is the id
get_children(d, parent_id) ==
    LET Of(e) == e.parent = parent_id
        Ids(entities) == [k \in DOMAIN entities |-> entities[k].id]
    IN  Ids(SelectSeq(d.services, Of)) \o Ids(SelectSeq(d.junctions, Of))
        \o Ids(SelectSeq(d.groups, Of))

\* adj.get(node_id, [])
AdjOf(a, node_id) == IF node_id \in DOMAIN a THEN a[node_id] ELSE <<>>

\* adj[key].append(entry), after "if key not in adj: adj[key] = []"
AdjAppend(a, key, entry) ==
    [k \in DOMAIN a \cup {key} |->
        IF k = key THEN Append(AdjOf(a, key), entry) ELSE a[k]]

RECURSIVE build_adjacency_from(_, _, _)
build_adjacency_from(edges, k, a) ==
    IF k > Len(edges)
    THEN a
    ELSE LET edge == edges[k]
             a1 == AdjAppend(a, edge.source_id,
                             <<edge.target_id, edge.source_dir, edge.target_dir>>)
             a2 == AdjAppend(a1, edge.target_id,
                             <<edge.source_id, edge.target_dir, edge.source_dir>>)
         IN  build_adjacency_from(edges, k + 1, a2)

build_adjacency(d) == build_adjacency_from(d.edges, 1, <<>>)

\* The conflict loop of _get_neighbor_position; the result carries the
\* number of attempts made.
ProbeBudget == 20

\* the conflict loop stepping the row before the column
RECURSIVE probe_row_first(_, _, _, _)
probe_row_first(new_row, new_col, attempts, occ) ==
    IF <<new_row, new_col>> \in occ /\ attempts < ProbeBudget
    THEN CASE attempts % 4 = 0 -> probe_row_first(new_row + 1, new_col, attempts + 1, occ)
           [] attempts % 4 = 1 -> probe_row_first(new_row, new_col + 1, attempts + 1, occ)
           [] attempts % 4 = 2 -> probe_row_first(new_row - 1, new_col, attempts + 1, occ)
           [] OTHER -> probe_row_first(new_row, new_col - 1, attempts + 1, occ)
    ELSE [row |-> new_row, col |-> new_col, attempts |-> attempts]

RECURSIVE probe(_, _, _, _)
probe(new_row, new_col, attempts, occ) ==
    IF <<new_row, new_col>> \in occ /\ attempts < ProbeBudget
    THEN CASE attempts % 4 = 0 -> probe(new_row, new_col + 1, attempts + 1, occ)
           [] attempts % 4 = 1 -> probe(new_row + 1, new_col, attempts + 1, occ)
           [] attempts % 4 = 2 -> probe(new_row, new_col - 1, attempts + 1, occ)
           [] OTHER -> probe(new_row - 1, new_col, attempts + 1, occ)
    ELSE [row |-> new_row, col |-> new_col, attempts |-> attempts]

get_neighbor_position_unchecked(row, col, from_dir, to_dir, occ) ==
    LET delta_col == IF from_dir = "R" THEN 1 ELSE IF from_dir = "L" THEN -1 ELSE 0
        delta_row == IF from_dir = "B" THEN 1 ELSE IF from_dir = "T" THEN -1 ELSE 0
    IN  [row |-> row + delta_row, col |-> col + delta_col, attempts |-> 0]

\* the offset taken from the port on the neighbor instead of the port on the
\* node in hand
get_neighbor_position_by_target_port(row, col, from_dir, to_dir, occ) ==
    LET delta_col == IF to_dir = "R" THEN 1 ELSE IF to_dir = "L" THEN -1 ELSE 0
        delta_row == IF to_dir = "B" THEN 1 ELSE IF to_dir = "T" THEN -1 ELSE 0
    IN  probe(row + delta_row, col + delta_col, 0, occ)

\* the offsets with the axes exchanged: RIGHT and LEFT move the row, BOTTOM
\* and TOP the column
get_neighbor_position_transposed(row, col, from_dir, to_dir, occ) ==
    LET delta_row == IF from_dir = "R" THEN 1 ELSE IF from_dir = "L" THEN -1 ELSE 0
        delta_col == IF from_dir = "B" THEN 1 ELSE IF from_dir = "T" THEN -1 ELSE 0
    IN  probe(row + delta_row, col + delta_col, 0, occ)

get_neighbor_position(row, col, from_dir, to_dir, occ) ==
    LET delta_col == IF from_dir = "R" THEN 1 ELSE IF from_dir = "L" THEN -1 ELSE 0
        delta_row == IF from_dir = "B" THEN 1 ELSE IF from_dir = "T" THEN -1 ELSE 0
    IN  probe(row + delta_row, col + delta_col, 0, occ)

RECURSIVE find_empty_from(_, _, _)
find_empty_from(row, col, occ) ==
    IF <<row, col>> \in occ
    THEN IF col + 1 > 10
         THEN find_empty_from(row + 1, 0, occ)
         ELSE find_empty_from(row, col + 1, occ)
    ELSE <<row, col>>

find_empty_position(occ) == find_empty_from(0, 0, occ)

\* all_nodes without the junctions
all_nodes_services(d) == Keys(d.services)

\* all_nodes = set(diagram.services.keys()) | set(diagram.junctions.keys())
all_nodes(d) == Keys(d.services) \cup Keys(d.junctions)

Min(S) == CHOOSE m \in S : \A n \in S : m <= n

Max(S) == CHOOSE m \in S : \A n \in S : m >= n

\* the pixel centre _apply_grid_positions gives the node at a grid cell
grid_x(pos, min_col) ==
    canvas_padding + (pos[2] - min_col) * (node_width + node_spacing_x)
    + node_width \div 2

grid_y(pos, min_row) ==
    canvas_padding + (pos[1] - min_row) * (node_height + node_spacing_y)
    + node_height \div 2

\* _apply_grid_positions with the grid bounds taken over the cells of the
\* services and junctions only
apply_grid_positions_nodes_min(d, gp) ==
    LET nodes == DOMAIN gp \cap (Keys(d.services) \cup Keys(d.junctions))
        min_row == IF nodes # {} THEN Min({ gp[n][1] : n \in nodes }) ELSE 0
        min_col == IF nodes # {} THEN Min({ gp[n][2] : n \in nodes }) ELSE 0
        Moved(e) == [e EXCEPT !.x = grid_x(gp[e.id], min_col),
                              !.y = grid_y(gp[e.id], min_row)]
        InS(id) == id \in Keys(d.services)
        InJ(id) == ~InS(id) /\ id \in Keys(d.junctions)
        InG(id) == ~InS(id) /\ ~InJ(id) /\ id \in Keys(d.groups)
    IN  [d EXCEPT
          !.services = [k \in DOMAIN @ |->
              IF @[k].id \in DOMAIN gp /\ InS(@[k].id) THEN Moved(@[k]) ELSE @[k]],
          !.junctions = [k \in DOMAIN @ |->
              IF @[k].id \in DOMAIN gp /\ InJ(@[k].id) THEN Moved(@[k]) ELSE @[k]],
          !.groups = [k \in DOMAIN @ |->
              IF @[k].id \in DOMAIN gp /\ InG(@[k].id) THEN Moved(@[k]) ELSE @[k]]]

\* _apply_grid_positions: for every id of grid_pos, node = get_node(id) and,
\* if it is not None, node.x, node.y = x, y.  get_node resolves an id to the
\* first of services, junctions, groups, layers that has it.
apply_grid_positions(d, gp) ==
    LET min_row == IF DOMAIN gp # {} THEN Min({ gp[n][1] : n \in DOMAIN gp }) ELSE 0
        min_col == IF DOMAIN gp # {} THEN Min({ gp[n][2] : n \in DOMAIN gp }) ELSE 0
        Moved(e) == [e EXCEPT !.x = grid_x(gp[e.id], min_col),
                              !.y = grid_y(gp[e.id], min_row)]
        InS(id) == id \in Keys(d.services)
        InJ(id) == ~InS(id) /\ id \in Keys(d.junctions)
        InG(id) == ~InS(id) /\ ~InJ(id) /\ id \in Keys(d.groups)
        InL(id) == ~InS(id) /\ ~InJ(id) /\ ~InG(id) /\ id \in Keys(d.layers)
    IN  [d EXCEPT
          !.services = [k \in DOMAIN @ |->
              IF @[k].id \in DOMAIN gp /\ InS(@[k].id) THEN Moved(@[k]) ELSE @[k]],
          !.junctions = [k \in DOMAIN @ |->
              IF @[k].id \in DOMAIN gp /\ InJ(@[k].id) THEN Moved(@[k]) ELSE @[k]],
          !.groups = [k \in DOMAIN @ |->
              IF @[k].id \in DOMAIN gp /\ InG(@[k].id) THEN Moved(@[k]) ELSE @[k]],
          !.layers = [k \in DOMAIN @ |->
              IF @[k].id \in DOMAIN gp /\ InL(@[k].id) THEN Moved(@[k]) ELSE @[k]]]

\* One iteration of the loop of _calculate_group_bounds, for the k-th group:
\* the boxes of the children are read from the diagram as it is now.
group_bounds_step(d, k) ==
    LET group == d.groups[k]
        children == get_children(d, group.id)
        Child(c) == get_node(d, children[c])
        min_x == Min({ Child(c).x - Child(c).width \div 2 : c \in DOMAIN children })
        max_x == Max({ Child(c).x + Child(c).width \div 2 : c \in DOMAIN children })
        min_y == Min({ Child(c).y - Child(c).height \div 2 : c \in DOMAIN children })
        max_y == Max({ Child(c).y + Child(c).height \div 2 : c \in DOMAIN children })
    IN  IF children = <<>>
        THEN [d EXCEPT !.groups[k].width = node_width + group_padding * 2,
                       !.groups[k].height = node_height + group_padding * 2]
        ELSE [d EXCEPT !.groups[k].x = (min_x + max_x) \div 2,
                       !.groups[k].y = (min_y + max_y) \div 2,
                       !.groups[k].width = (max_x - min_x) + group_padding * 2,
                       !.groups[k].height = (max_y - min_y) + group_padding * 2]

\* _center_diagram that shifts the services and junctions but not the groups
center_diagram_nodes_only(d) ==
    LET nodes == Range(d.services) \cup Range(d.junctions)
        min_x == Min({ n.x - n.width \div 2 : n \in nodes })
        min_y == Min({ n.y - n.height \div 2 : n \in nodes })
        offset_x == canvas_padding - min_x
        offset_y == canvas_padding - min_y
        Shift(e) == [e EXCEPT !.x = @ + offset_x, !.y = @ + offset_y]
    IN  IF nodes = {}
        THEN d
        ELSE [d EXCEPT !.services = [k \in DOMAIN @ |-> Shift(@[k])],
                       !.junctions = [k \in DOMAIN @ |-> Shift(@[k])]]

\* _center_diagram
center_diagram(d) ==
    LET nodes == Range(d.services) \cup Range(d.junctions)
        min_x == Min({ n.x - n.width \div 2 : n \in nodes })
        min_y == Min({ n.y - n.height \div 2 : n \in nodes })
        offset_x == canvas_padding - min_x
        offset_y == canvas_padding - min_y
        Shift(e) == [e EXCEPT !.x = @ + offset_x, !.y = @ + offset_y]
    IN  IF nodes = {}
        THEN d
        ELSE [d EXCEPT !.services = [k \in DOMAIN @ |-> Shift(@[k])],
                       !.junctions = [k \in DOMAIN @ |-> Shift(@[k])],
                       !.groups = [k \in DOMAIN @ |-> Shift(@[k])]]

NoCur == <<>>

\* _layout_layered not entered
NoLay == [layers |-> <<>>, k |-> 0, y_offset |-> 0, services_area_width |-> 0]

\* layout(), standard strategy: adj = _build_adjacency(diagram), then the
\* start of _assign_grid_positions: start_node = list(all_nodes)[0], any
\* element of the set.  A second run on an equal diagram is started from
\* the origin of the first.
LayoutBegin ==
    /\ stage = "layout"
    /\ lpc = "start"
    /\ ~is_layered(diagram)
    /\ adj' = build_adjacency(diagram)
    /\ IF all_nodes(diagram) = {}
       THEN /\ grid_pos' = <<>>
            /\ visited' = {}
            /\ occupied' = {}
            /\ queue' = <<>>
            /\ placed' = <<>>
            /\ origin' = None
       ELSE \E start_node \in all_nodes(diagram) :
            /\ run > 1 => start_node = first.origin
            /\ queue' = << <<start_node, 0, 0>> >>
            /\ visited' = {start_node}
            /\ grid_pos' = (start_node :> <<0, 0>>)
            /\ occupied' = { <<0, 0>> }
            /\ placed' = << [id |-> start_node, cell |-> <<0, 0>>, attempts |-> 0,
                             free |-> TRUE, how |-> "origin"] >>
            /\ origin' = start_node
    /\ cur' = NoCur
    /\ lpc' = "grid"
    /\ UNCHANGED <<stage, parseVars, diagram, input, gi, run, first, lay, renderVars>>

\* node_id, row, col = queue.popleft()
BfsDequeue ==
    /\ lpc = "grid"
    /\ cur = NoCur
    /\ queue # <<>>
    /\ queue' = Tail(queue)
    /\ cur' = IF AdjOf(adj, Head(queue)[1]) = <<>>
              THEN NoCur
              ELSE << [node_id |-> Head(queue)[1], row |-> Head(queue)[2],
                       col |-> Head(queue)[3], k |-> 1] >>
    /\ UNCHANGED <<stage, parseVars, diagram, input, lpc, adj, grid_pos, visited,
                   occupied, placed, origin, gi, run, first, lay, renderVars>>

\* one iteration of "for neighbor_id, from_dir, to_dir in adj.get(node_id, [])"
BfsNeighbor ==
    /\ lpc = "grid"
    /\ cur # NoCur
    /\ LET c == cur[1]
           entry == AdjOf(adj, c.node_id)[c.k]
           neighbor_id == entry[1]
           new == get_neighbor_position(c.row, c.col, entry[2], entry[3], occupied)
       IN  /\ IF neighbor_id \in visited
              THEN UNCHANGED <<visited, grid_pos, occupied, queue, placed>>
              ELSE /\ visited' = visited \cup {neighbor_id}
                   /\ grid_pos' = [n \in DOMAIN grid_pos \cup {neighbor_id} |->
                                     IF n = neighbor_id THEN <<new.row, new.col>>
                                     ELSE grid_pos[n]]
                   /\ occupied' = occupied \cup { <<new.row, new.col>> }
                   /\ queue' = Append(queue, <<neighbor_id, new.row, new.col>>)
                   /\ placed' = Append(placed,
                         [id |-> neighbor_id, cell |-> <<new.row, new.col>>,
                          attempts |-> new.attempts,
                          free |-> <<new.row, new.col>> \notin occupied,
                          how |-> "probe"])
           /\ cur' = IF c.k < Len(AdjOf(adj, c.node_id))
                     THEN << [c EXCEPT !.k = c.k + 1] >>
                     ELSE NoCur
    /\ UNCHANGED <<stage, parseVars, diagram, input, lpc, adj, origin, gi, run,
                   first, lay, renderVars>>

\* the nodes "for node_id in all_nodes - visited" has still to visit
Unreached == (all_nodes(diagram) \ visited) \ DOMAIN grid_pos

\* one iteration of "for node_id in all_nodes - visited": the set is iterated
\* in any order
PlaceDisconnected ==
    /\ lpc = "grid"
    /\ cur = NoCur
    /\ queue = <<>>
    /\ \E node_id \in Unreached :
           LET pos == find_empty_position(occupied)
           IN  /\ grid_pos' = [n \in DOMAIN grid_pos \cup {node_id} |->
                                 IF n = node_id THEN pos ELSE grid_pos[n]]
               /\ occupied' = occupied \cup {pos}
               /\ placed' = Append(placed,
                     [id |-> node_id, cell |-> pos, attempts |-> 0,
                      free |-> pos \notin occupied, how |-> "scan"])
    /\ UNCHANGED <<stage, parseVars, diagram, input, lpc, adj, visited, queue, cur,
                   origin, gi, run, first, lay, renderVars>>

\* return grid_pos; self._apply_grid_positions(diagram, grid_pos)
ApplyGrid ==
    /\ lpc = "grid"
    /\ cur = NoCur
    /\ queue = <<>>
    /\ Unreached = {}
    /\ diagram' = apply_grid_positions(diagram, grid_pos)
    /\ lpc' = "groups"
    /\ gi' = 1
    /\ UNCHANGED <<stage, parseVars, input, gridVars, run, first, lay, renderVars>>

\* one iteration of "for group in diagram.groups.values()"
GroupBounds ==
    /\ lpc = "groups"
    /\ gi <= Len(diagram.groups)
    /\ diagram' = group_bounds_step(diagram, gi)
    /\ gi' = gi + 1
    /\ UNCHANGED <<stage, parseVars, input, lpc, gridVars, run, first, lay, renderVars>>

\* self._center_diagram(diagram); return diagram
Center ==
    /\ lpc = "groups"
    /\ gi > Len(diagram.groups)
    /\ diagram' = center_diagram(diagram)
    /\ lpc' = "done"
    /\ stage' = "render"
    /\ UNCHANGED <<parseVars, input, gridVars, gi, run, first, lay, renderVars>>

\* layout() is run again on a diagram equal to the one the first run was
\* given (a fresh parse of the same text).
LayoutAgain ==
    /\ lpc = "done"
    /\ stage = "render"
    /\ run = 1
    /\ \A c \in DOMAIN rc : rc[c].pc = "idle"
    /\ first' = [origin |-> origin, diagram |-> diagram, grid_pos |-> grid_pos]
    /\ diagram' = input
    /\ run' = 2
    /\ lpc' = "start"
    /\ stage' = "layout"
    /\ UNCHANGED <<parseVars, input, gridVars, gi, lay, renderVars>>

ParseIdle ==
    /\ text = <<>>
    /\ layer_order = 0
    /\ parsed = <<>>

\* no layout() call made yet on the diagram
LayoutIdle ==
    /\ input = diagram
    /\ lpc = "start"
    /\ adj = <<>>
    /\ grid_pos = <<>>
    /\ visited = {}
    /\ occupied = {}
    /\ queue = <<>>
    /\ cur = NoCur
    /\ gi = 1
    /\ placed = <<>>
    /\ origin = None
    /\ run = 1
    /\ first = [origin |-> None, diagram |-> ArchitectureDiagram, grid_pos |-> <<>>]
    /\ lay = NoLay

NextLayout ==
    \/ LayoutBegin
    \/ BfsDequeue
    \/ BfsNeighbor
    \/ PlaceDisconnected
    \/ ApplyGrid
    \/ GroupBounds
    \/ Center

NextRerun ==
    \/ NextLayout
    \/ LayoutAgain

-----------------------------------------------------------------------------
(* ArchitectureLayout: the layered strategy *)

layer_height == 140
layer_spacing == 60
layer_label_width == 120

\* get_layers_ordered: sorted(self.layers.values(), key=lambda l: l.order),
\* a stable sort; the layers are held by id
get_layers_ordered(d) ==
    LET n == Len(d.layers)
        Before(a, b) ==
            \/ d.layers[a].order < d.layers[b].order
            \/ d.layers[a].order = d.layers[b].order /\ a < b
        rank(a) == Cardinality({ b \in 1..n : Before(b, a) }) + 1
    IN  [r \in 1..n |-> d.layers[CHOOSE a \in 1..n : rank(a) = r].id]

\* max_services_per_layer = max(max_services_per_layer, len(children)), from 0
max_services_per_layer(d) ==
    Max({0} \cup { Len(get_children(d, d.layers[k].id)) : k \in DOMAIN d.layers })

\* place_node that also sizes the node to the width of its cell
place_node_sized(d, node_id, x, y) ==
    LET Put(entities) ==
            [k \in DOMAIN entities |->
                IF entities[k].id = node_id
                THEN [entities[k] EXCEPT !.x = x, !.y = y,
                                         !.width = node_width + node_spacing_x]
                ELSE entities[k]]
    IN  IF node_id \in Keys(d.services) THEN [d EXCEPT !.services = Put(@)]
        ELSE IF node_id \in Keys(d.junctions) THEN [d EXCEPT !.junctions = Put(@)]
        ELSE IF node_id \in Keys(d.groups) THEN [d EXCEPT !.groups = Put(@)]
        ELSE d

\* node = diagram.get_node(node_id); if node: node.x = x; node.y = y
place_node(d, node_id, x, y) ==
    LET Put(entities) ==
            [k \in DOMAIN entities |->
                IF entities[k].id = node_id
                THEN [entities[k] EXCEPT !.x = x, !.y = y]
                ELSE entities[k]]
    IN  IF node_id \in Keys(d.services) THEN [d EXCEPT !.services = Put(@)]
        ELSE IF node_id \in Keys(d.junctions) THEN [d EXCEPT !.junctions = Put(@)]
        ELSE IF node_id \in Keys(d.groups) THEN [d EXCEPT !.groups = Put(@)]
        ELSE IF node_id \in Keys(d.layers) THEN [d EXCEPT !.layers = Put(@)]
        ELSE d

\* for i, child_id in enumerate(children): the children from the i-th on
\* (i counts from 1 here, from 0 in the code)
RECURSIVE place_children(_, _, _, _, _)
place_children(d, children, i, services_start_x, y) ==
    IF i > Len(children)
    THEN d
    ELSE place_children(
             place_node(d, children[i],
                        services_start_x + (i - 1) * (node_width + node_spacing_x)
                            + node_width \div 2,
                        y),
             children, i + 1, services_start_x, y)

\* one iteration of "for layer in layers" of _layout_layered
layout_layer(d, layer_id, y_offset, services_area_width) ==
    LET children == get_children(d, layer_id)
        services_start_x == canvas_padding + layer_label_width + node_spacing_x \div 2
        y == y_offset + layer_height \div 2
        Box(l) == [l EXCEPT !.x = canvas_padding + layer_label_width \div 2,
                            !.y = y,
                            !.width = layer_label_width - 20,
                            !.height = layer_height - 20]
        d1 == [d EXCEPT !.layers =
                  [k \in DOMAIN @ |-> IF @[k].id = layer_id THEN Box(@[k]) ELSE @[k]]]
    IN  IF Len(children) = 1
        THEN place_node(d1, children[1], services_start_x + services_area_width \div 2, y)
        ELSE place_children(d1, children, 1, services_start_x, y)

\* layout() on a layered diagram: return self._layout_layered(diagram), up
\* to the second loop (the layers sorted, the widest layer measured)
LayeredBegin ==
    /\ stage = "layout"
    /\ lpc = "start"
    /\ is_layered(diagram)
    /\ lay' = [layers |-> get_layers_ordered(diagram), k |-> 1,
               y_offset |-> canvas_padding,
               services_area_width |->
                   max_services_per_layer(diagram) * (node_width + node_spacing_x)]
    /\ lpc' = "layers"
    /\ UNCHANGED <<stage, parseVars, diagram, input, gridVars, gi, run, first, renderVars>>

\* one iteration of the second "for layer in layers"
LayerStep ==
    /\ lpc = "layers"
    /\ lay.k <= Len(lay.layers)
    /\ diagram' = layout_layer(diagram, lay.layers[lay.k], lay.y_offset,
                               lay.services_area_width)
    /\ lay' = [lay EXCEPT !.k = @ + 1, !.y_offset = @ + layer_height + layer_spacing]
    /\ UNCHANGED <<stage, parseVars, input, lpc, gridVars, gi, run, first, renderVars>>

\* return diagram
LayeredReturn ==
    /\ lpc = "layers"
    /\ lay.k > Len(lay.layers)
    /\ lpc' = "done"
    /\ stage' = "render"
    /\ UNCHANGED <<parseVars, diagram, input, gridVars, gi, run, first, lay, renderVars>>

NextLayered ==
    \/ LayeredBegin
    \/ LayerStep
    \/ LayeredReturn

-----------------------------------------------------------------------------
(* LottieRenderer *)

\* The icon keywords for which _render_service_icon builds shapes.
IconShapes ==
    { ICON.server, ICON.database, ICON.disk, ICON.storage,
      ICON.brain, ICON.neural, ICON.ai,
      ICON.gear, ICON.cog, ICON.settings,
      ICON.lightbulb, ICON.idea,
      ICON.api,
      ICON.search, ICON.query,
      ICON.wifi, ICON.sensor,
      ICON.globe, ICON.web,
      ICON.logs,
      ICON.tools, ICON.decision,
      ICON.loop, ICON.error, ICON.check, ICON.output }

\* Keys of ICON_COLORS, each with the key of the theme colour it maps to.
ICON_COLORS ==
    { <<ICON.server, ICON.server>>, <<ICON.database, ICON.database>>, <<ICON.disk, ICON.disk>>,
      <<ICON.storage, ICON.disk>>, <<ICON.cloud, <<"c","l","o","u","d","_","s","t","r","o","k","e">> >>,
      <<ICON.brain, ICON.brain>>, <<ICON.neural, ICON.neural>>, <<ICON.ai, ICON.ai>>,
      <<ICON.api, ICON.api>>, <<ICON.sensor, ICON.sensor>>, <<ICON.logs, ICON.logs>>,
      <<ICON.search, ICON.search>>, <<ICON.query, ICON.query>>,
      <<ICON.wifi, ICON.wifi>>, <<ICON.globe, ICON.globe>>, <<ICON.web, ICON.web>>,
      <<ICON.gear, ICON.gear>>, <<ICON.cog, ICON.cog>>, <<ICON.settings, ICON.settings>>,
      <<ICON.tools, ICON.tools>>,
      <<ICON.lightbulb, ICON.lightbulb>>, <<ICON.idea, ICON.idea>>, <<ICON.output, ICON.output>>,
      <<ICON.decision, ICON.decision>>, <<ICON.loop, ICON.loop>>, <<ICON.error, ICON.error>>,
      <<ICON.check, ICON.check>> }

\* _get_color: the key of the theme colour of an icon; every value of
\* ICON_COLORS is a key of the default theme, 'server' is the fallback.
get_color(icon) ==
    IF icon # None /\ \E p \in ICON_COLORS : p[1] = icon
    THEN (CHOOSE p \in ICON_COLORS : p[1] = icon)[2]
    ELSE ICON.server

\* LottieConfig(): fps = 60, duration_seconds = 2.0
LottieConfig == [fps |-> 60, duration_halves |-> 4]

\* duration_frames = int(cfg.fps * cfg.duration_seconds); the duration is
\* held in half seconds, which floats represent exactly.
duration_frames(cfg) == (cfg.fps * cfg.duration_halves) \div 2

\* The dash-offset keyframes of an arrow: dash 8, gap 4.
DashKeyframesLateEnd(frames) ==
    LET dash_size == 8
        gap_size == 4
        pattern_length == dash_size + gap_size
    IN  << [t |-> 0, s |-> 0], [t |-> frames, s |-> -pattern_length * 10] >>

DashKeyframes(frames) ==
    LET dash_size == 8
        gap_size == 4
        pattern_length == dash_size + gap_size
    IN  << [t |-> 0, s |-> 0], [t |-> frames - 1, s |-> -pattern_length * 10] >>

\* _get_port_position: the point 5 px outside the middle of the side of the
\* node's box that the port names
get_port_position(node, direction) ==
    LET offset == 5
    IN  CASE direction = "L" -> <<node.x - node.width \div 2 - offset, node.y>>
          [] direction = "R" -> <<node.x + node.width \div 2 + offset, node.y>>
          [] direction = "T" -> <<node.x, node.y - node.height \div 2 - offset>>
          [] direction = "B" -> <<node.x, node.y + node.height \div 2 + offset>>
          [] OTHER -> <<node.x, node.y>>

\* "shapes" of the arrow layer: the group Line, an open path from start with
\* a dashed stroke, and the group Head, a closed filled path with its first
\* vertex at end.  The other vertices (arrow_end, head1, head2) are computed
\* from start and end alone and are not carried.
arrow_shapes(edge, d) ==
    LET start == get_port_position(get_node(d, edge.source_id), edge.source_dir)
        end == get_port_position(get_node(d, edge.target_id), edge.target_dir)
    IN  << [nm |-> "Line", c |-> FALSE, v |-> <<start>>, it |-> <<"sh", "st", "tr">>,
            d |-> <<"d", "g", "o">>],
           [nm |-> "Head", c |-> TRUE, v |-> <<end>>, it |-> <<"sh", "fl", "tr">>,
            d |-> <<>>] >>

\* _render_arrow that builds a layer for every edge, resolved or not
render_arrow_every_edge(edge, d, frames, idx) ==
    << [blk |-> "arrows", ind |-> idx, ty |-> 4,
        nm |-> <<"Arrow", edge.source_id, edge.target_id>>,
        shapes |-> IF Resolves(d, edge.source_id) /\ Resolves(d, edge.target_id)
                   THEN arrow_shapes(edge, d) ELSE <<>>,
        k |-> DashKeyframes(frames), ip |-> 0, op |-> frames] >>

\* _render_arrow that draws the head only for an edge with the arrow flag
render_arrow_flagged(edge, d, frames, idx) ==
    IF ~Resolves(d, edge.source_id) \/ ~Resolves(d, edge.target_id)
    THEN <<>>
    ELSE << [blk |-> "arrows", ind |-> idx, ty |-> 4,
             nm |-> <<"Arrow", edge.source_id, edge.target_id>>,
             shapes |-> IF edge.has_arrow THEN arrow_shapes(edge, d)
                        ELSE << arrow_shapes(edge, d)[1] >>,
             k |-> DashKeyframes(frames), ip |-> 0, op |-> frames] >>

\* _render_arrow up to the layer dict: no layer (None) when an end does not
\* resolve.  A layer is a record; blk names the loop of render() that emits it.
render_arrow(edge, d, frames, idx) ==
    IF ~Resolves(d, edge.source_id) \/ ~Resolves(d, edge.target_id)
    THEN <<>>
    ELSE << [blk |-> "arrows", ind |-> idx, ty |-> 4,
             nm |-> <<"Arrow", edge.source_id, edge.target_id>>,
             shapes |-> arrow_shapes(edge, d),
             k |-> DashKeyframes(frames), ip |-> 0, op |-> frames] >>

render_group(group, frames, idx) ==
    << [blk |-> "groups", ind |-> idx, ty |-> 4, nm |-> <<"Group", group.id>>,
        cloud |-> (group.icon = ICON.cloud), ip |-> 0, op |-> frames] >>

render_layer_label(arch_layer, frames, idx) ==
    << [blk |-> "layer_labels", ind |-> idx, ty |-> 5,
        nm |-> <<"LayerLabel", arch_layer.id>>, ip |-> 0, op |-> frames] >>

render_layer(arch_layer, frames, idx) ==
    << [blk |-> "layers", ind |-> idx, ty |-> 4,
        nm |-> <<"Layer", arch_layer.id>>, ip |-> 0, op |-> frames] >>

render_service_icon_vocabulary(service, frames, idx) ==
    IF service.icon \notin ICONS
    THEN <<>>
    ELSE << [blk |-> "icons", ind |-> idx, ty |-> 4,
             nm |-> <<service.id, "_icon">>, ip |-> 0, op |-> frames] >>

\* LottieConfig.colors, the default theme: the colour keys ICON_COLORS maps
\* to, each with its RGB value in thousandths.
colors ==
    { <<ICON.server, <<365, 678, 886>> >>,
      <<ICON.database, <<0, 851, 647>> >>,
      <<ICON.disk, <<851, 275, 937>> >>,
      << <<"c","l","o","u","d","_","s","t","r","o","k","e">>, <<306, 804, 769>> >>,
      <<ICON.brain, <<988, 549, 675>> >>, <<ICON.neural, <<988, 549, 675>> >>,
      <<ICON.ai, <<988, 549, 675>> >>,
      <<ICON.api, <<365, 678, 886>> >>,
      <<ICON.sensor, <<565, 792, 976>> >>, <<ICON.logs, <<565, 792, 976>> >>,
      <<ICON.search, <<565, 792, 976>> >>, <<ICON.query, <<565, 792, 976>> >>,
      <<ICON.wifi, <<306, 804, 769>> >>, <<ICON.globe, <<306, 804, 769>> >>,
      <<ICON.web, <<306, 804, 769>> >>,
      <<ICON.gear, <<988, 773, 318>> >>, <<ICON.cog, <<988, 773, 318>> >>,
      <<ICON.settings, <<988, 773, 318>> >>, <<ICON.tools, <<988, 773, 318>> >>,
      <<ICON.lightbulb, <<988, 867, 318>> >>, <<ICON.idea, <<988, 867, 318>> >>,
      <<ICON.output, <<565, 792, 976>> >>,
      <<ICON.decision, <<988, 773, 318>> >>,
      <<ICON.loop, <<565, 792, 976>> >>,
      <<ICON.error, <<1000, 420, 420>> >>,
      <<ICON.check, <<0, 851, 647>> >> }

\* _render_service_icon that builds a layer whatever the icon
render_service_icon_any(service, frames, idx) ==
    << [blk |-> "icons", ind |-> idx, ty |-> 4,
        nm |-> <<service.id, "_icon">>, ip |-> 0, op |-> frames] >>

\* _render_service_icon: no layer (None) when no branch built shapes.
render_service_icon(service, frames, idx) ==
    IF service.icon \notin IconShapes
    THEN <<>>
    ELSE << [blk |-> "icons", ind |-> idx, ty |-> 4,
             nm |-> <<service.id, "_icon">>, ip |-> 0, op |-> frames] >>

render_service(service, frames, idx) ==
    << [blk |-> "services", ind |-> idx, ty |-> 4, nm |-> <<service.id>>,
        color |-> get_color(service.icon), ip |-> 0, op |-> frames] >>

render_label(service, frames, idx) ==
    << [blk |-> "labels", ind |-> idx, ty |-> 5,
        nm |-> <<"Label", service.id>>, ip |-> 0, op |-> frames] >>

render_group_label(group, frames, idx) ==
    << [blk |-> "group_labels", ind |-> idx, ty |-> 5,
        nm |-> <<"Label", group.id>>, ip |-> 0, op |-> frames] >>

render_background(frames, idx) ==
    [blk |-> "background", ind |-> idx, ty |-> 1, nm |-> <<"Background">>,
     ip |-> 0, op |-> frames]

\* The loops of render(), in program order.
PhasesBoxesFirst ==
    << "arrows", "groups", "layer_labels", "layers", "services", "icons",
       "labels", "group_labels", "background" >>

Phases ==
    << "arrows", "groups", "layer_labels", "layers", "icons", "services",
       "labels", "group_labels", "background" >>

PhaseNo(p) == CHOOSE k \in DOMAIN Phases : Phases[k] = p

\* The collection a loop of render() iterates.
LoopItems(d, p) ==
    CASE p = "arrows" -> d.edges
      [] p \in {"groups", "group_labels"} -> d.groups
      [] p \in {"layer_labels", "layers"} -> d.layers
      [] p \in {"icons", "services", "labels"} -> d.services
      [] OTHER -> <<"background">>

RECURSIVE FirstLoopFrom(_, _)
FirstLoopFrom(d, k) ==
    IF k >= Len(Phases) \/ Len(LoopItems(d, Phases[k])) > 0
    THEN k
    ELSE FirstLoopFrom(d, k + 1)

\* The position of render() after item i of loop p: the next item, or the
\* first item of the next loop that has one.
After(d, p, i) ==
    IF i < Len(LoopItems(d, p))
    THEN [pc |-> p, i |-> i + 1]
    ELSE [pc |-> Phases[FirstLoopFrom(d, PhaseNo(p) + 1)], i |-> 1]

\* render() entry: layers = [], self.layer_idx = 1
EntryIdxKeep(old) == old

EntryIdx(old) == 1

\* self.layer_idx += 1
IncrIdxNone(n) == n

IncrIdx(n) == n + 1

\* self of a render() call: the LottieRenderer instance it was called on
SelfShared(c) == 1

Self(c) == rc[c].inst

Idle == [pc |-> "idle", i |-> 0, layers |-> <<>>, pending |-> <<>>, frames |-> 0]

Active(c) == rc[c].pc \notin {"idle", "done"}

RenderEntry(c) ==
    /\ stage = "render"
    /\ ~Active(c)
    /\ Len(returned) + Cardinality({ b \in DOMAIN rc : Active(b) }) < MaxCalls
    /\ LET start == [pc |-> Phases[FirstLoopFrom(diagram, 1)], i |-> 1]
       IN  rc' = [rc EXCEPT ![c].pc = start.pc, ![c].i = start.i,
                            ![c].layers = <<>>, ![c].pending = <<>>,
                            ![c].frames = duration_frames(config)]
    /\ layer_idx' = [layer_idx EXCEPT ![Self(c)] = EntryIdx(@)]
    /\ UNCHANGED <<stage, parseVars, diagram, layoutVars, config, returned>>

\* One iteration of a loop of render(), up to the point where the _render_*
\* method has built its layer dict (pending) or has returned None / the
\* "if x.label" test has failed (no layer: on to the next item).
LoopStep(c, p, made) ==
    /\ rc[c].pc = p
    /\ rc[c].pending = <<>>
    /\ IF made = <<>>
       THEN LET nxt == After(diagram, p, rc[c].i)
            IN  rc' = [rc EXCEPT ![c].pc = nxt.pc, ![c].i = nxt.i]
       ELSE rc' = [rc EXCEPT ![c].pending = made]
    /\ UNCHANGED <<stage, parseVars, diagram, layoutVars, config, layer_idx, returned>>

Item(c) == LoopItems(diagram, rc[c].pc)[rc[c].i]

Idx(c) == layer_idx[Self(c)]

RenderArrow(c) ==
    /\ rc[c].pc = "arrows"
    /\ LoopStep(c, "arrows", render_arrow(Item(c), diagram, rc[c].frames, Idx(c)))

RenderGroup(c) ==
    /\ rc[c].pc = "groups"
    /\ LoopStep(c, "groups", render_group(Item(c), rc[c].frames, Idx(c)))

RenderLayerLabel(c) ==
    /\ rc[c].pc = "layer_labels"
    /\ LoopStep(c, "layer_labels",
                IF Item(c).label # None
                THEN render_layer_label(Item(c), rc[c].frames, Idx(c))
                ELSE <<>>)

RenderLayer(c) ==
    /\ rc[c].pc = "layers"
    /\ LoopStep(c, "layers", render_layer(Item(c), rc[c].frames, Idx(c)))

RenderServiceIcon(c) ==
    /\ rc[c].pc = "icons"
    /\ LoopStep(c, "icons", render_service_icon(Item(c), rc[c].frames, Idx(c)))

RenderService(c) ==
    /\ rc[c].pc = "services"
    /\ LoopStep(c, "services", render_service(Item(c), rc[c].frames, Idx(c)))

RenderLabel(c) ==
    /\ rc[c].pc = "labels"
    /\ LoopStep(c, "labels",
                IF Item(c).label # None
                THEN render_label(Item(c), rc[c].frames, Idx(c))
                ELSE <<>>)

RenderGroupLabel(c) ==
    /\ rc[c].pc = "group_labels"
    /\ LoopStep(c, "group_labels",
                IF Item(c).label # None
                THEN render_group_label(Item(c), rc[c].frames, Idx(c))
                ELSE <<>>)

\* The tail of every _render_* method that built a layer, and the append in
\* render(): self.layer_idx += 1; return layer; layers.append(layer)
RenderIncr(c) ==
    /\ Active(c)
    /\ rc[c].pending # <<>>
    /\ layer_idx' = [layer_idx EXCEPT ![Self(c)] = IncrIdx(@)]
    /\ LET nxt == After(diagram, rc[c].pc, rc[c].i)
       IN  rc' = [rc EXCEPT ![c].pc = nxt.pc, ![c].i = nxt.i,
                            ![c].pending = <<>>,
                            ![c].layers = Append(@, rc[c].pending[1])]
    /\ UNCHANGED <<stage, parseVars, diagram, layoutVars, config, returned>>

\* layers.append(self._render_background(...)); build and return the document
RenderBackground(c) ==
    /\ rc[c].pc = "background"
    /\ LET layers == Append(rc[c].layers, render_background(rc[c].frames, Idx(c)))
       IN  /\ rc' = [rc EXCEPT ![c].pc = "done", ![c].layers = layers]
           /\ returned' = Append(returned,
                  [call |-> c, fr |-> config.fps, ip |-> 0, op |-> rc[c].frames,
                   layers |-> layers])
    /\ UNCHANGED <<stage, parseVars, diagram, layoutVars, config, layer_idx>>

NextRender ==
    \/ \E c \in DOMAIN rc : RenderEntry(c)
    \/ \E c \in DOMAIN rc : RenderArrow(c)
    \/ \E c \in DOMAIN rc : RenderGroup(c)
    \/ \E c \in DOMAIN rc : RenderLayerLabel(c)
    \/ \E c \in DOMAIN rc : RenderLayer(c)
    \/ \E c \in DOMAIN rc : RenderServiceIcon(c)
    \/ \E c \in DOMAIN rc : RenderService(c)
    \/ \E c \in DOMAIN rc : RenderLabel(c)
    \/ \E c \in DOMAIN rc : RenderGroupLabel(c)
    \/ \E c \in DOMAIN rc : RenderIncr(c)
    \/ \E c \in DOMAIN rc : RenderBackground(c)

-----------------------------------------------------------------------------
(* Diagrams and configurations handed to the renderer *)

Digits == <<"1", "2", "3", "4", "5", "6", "7", "8", "9">>

Id(letter, k) == <<letter, Digits[k]>>

S_zzz == <<"z","z","z">>

L_Web == <<"W","e","b">>

Sp == << " " >>

\* the text of a declaration: keyword id(icon)[label] in parent
Decl(keyword, id, icon, label, parent) ==
    keyword \o Sp \o id
    \o (IF icon # None THEN << "(" >> \o icon \o << ")" >> ELSE <<>>)
    \o (IF label # None THEN << "[" >> \o label \o << "]" >> ELSE <<>>)
    \o (IF parent # None THEN Sp \o W_in \o Sp \o parent ELSE <<>>)

\* the text of an edge: source:port arrow port:target
EdgeText(source_id, source_dir, arrow, target_dir, target_id) ==
    source_id \o << ":", source_dir >> \o Sp \o arrow \o Sp
    \o << target_dir, ":" >> \o target_id

\* str.join
RECURSIVE Join(_, _)
Join(pieces, sep) ==
    IF pieces = <<>> THEN <<>>
    ELSE IF Len(pieces) = 1 THEN pieces[1]
    ELSE pieces[1] \o sep \o Join(Tail(pieces), sep)

Dash2 == << "-", "-" >>

\* the ids and labels of test_input that are not icon keywords
SCENARIO ==
    [ API |-> <<"A","P","I">>,
      Database |-> <<"D","a","t","a","b","a","s","e">>,
      Storage |-> <<"S","t","o","r","a","g","e">>,
      Server |-> <<"S","e","r","v","e","r">>,
      db |-> <<"d","b">>,
      disk1 |-> <<"d","i","s","k","1">>,
      disk2 |-> <<"d","i","s","k","2">> ]

Indent(n) == [k \in 1..n |-> " "]

\* test_input of the self-test
ScenarioText ==
    Join(<< <<>>,
            Indent(4) \o KEYWORD.architecture,
            Indent(8) \o Decl(KEYWORD.group, ICON.api, ICON.cloud, SCENARIO.API, None),
            <<>>,
            Indent(8) \o Decl(KEYWORD.service, SCENARIO.db, ICON.database, SCENARIO.Database, ICON.api),
            Indent(8) \o Decl(KEYWORD.service, SCENARIO.disk1, ICON.disk, SCENARIO.Storage, ICON.api),
            Indent(8) \o Decl(KEYWORD.service, SCENARIO.disk2, ICON.disk, SCENARIO.Storage, ICON.api),
            Indent(8) \o Decl(KEYWORD.service, ICON.server, ICON.server, SCENARIO.Server, ICON.api),
            <<>>,
            Indent(8) \o EdgeText(SCENARIO.db, "L", Dash2, "R", ICON.server),
            Indent(8) \o EdgeText(SCENARIO.disk1, "T", Dash2, "B", ICON.server),
            Indent(8) \o EdgeText(SCENARIO.disk2, "T", Dash2, "B", SCENARIO.db),
            Indent(4) >>,
         << "\n" >>)

\* the diagram parse() returns for the scenario
ScenarioDiagram == parse(ScenarioText)

\* icon and label of a service: an icon with shapes, an icon of the
\* vocabulary without shapes, no icon, an icon outside the vocabulary
ServiceKinds ==
    { [icon |-> ICON.server, label |-> L_Web],
      [icon |-> ICON.cloud, label |-> None],
      [icon |-> None, label |-> L_Web],
      [icon |-> S_zzz, label |-> None] }

ServiceLists ==
    { [k \in DOMAIN f |-> Service(Id("s", k), f[k].icon, f[k].label, None)] :
        f \in UNION { [1..n -> ServiceKinds] : n \in 0..MaxServices } }

\* no group, or one without and one with a label
GroupLists ==
    { <<>>,
      << Group(Id("g", 1), None, None, None),
         Group(Id("g", 2), ICON.cloud, L_Web, None) >> }

\* no layer, or one without and one with a label
LayerLists ==
    { <<>>,
      << Layer(Id("l", 1), None, None, 0), Layer(Id("l", 2), None, L_Web, 1) >> }

\* s1:R --> L:s2 dangles when there is no second service, g1:B -- T:s1 when
\* there is no group or no service
RenderEdgePool ==
    { Edge(Id("s", 1), "R", Id("s", 2), "L", TRUE),
      Edge(Id("g", 1), "B", Id("s", 1), "T", FALSE) }

EdgeLists(pool) == UNION { [1..n -> pool] : n \in 0..MaxEdges }

RenderDiagrams ==
    { [groups |-> g, services |-> s, junctions |-> <<>>, edges |-> e, layers |-> l] :
        g \in GroupLists, s \in ServiceLists, e \in EdgeLists(RenderEdgePool),
        l \in LayerLists }
    \cup { ScenarioDiagram }

FpsPool == {1, 60}

Configs == [fps : FpsPool, duration_halves : 1..MaxDurationHalves]

\* the diagrams that differ only in their edges: two services, no group, no
\* layer
ArrowDiagrams ==
    { d \in RenderDiagrams :
        /\ Len(d.services) = 2
        /\ \A k \in DOMAIN d.services : d.services[k].icon = ICON.server
        /\ d.groups = <<>>
        /\ d.layers = <<>> }

\* One LottieRenderer, constructed (__init__: layer_idx = 1), whose render()
\* is called again and again on the same diagram.  The configuration, of
\* which render() reads fps and duration_seconds for the frame count and
\* _render_arrow the frame count for its keyframes, is the default one, or
\* any one for the diagrams with arrows.
InitRender ==
    /\ diagram \in RenderDiagrams
    /\ stage = "render"
    /\ ParseIdle
    /\ LayoutIdle
    /\ config \in Configs \cup {LottieConfig}
    /\ config = LottieConfig \/ diagram \in ArrowDiagrams
    /\ layer_idx = [r \in {1} |-> 1]
    /\ rc = [c \in {1} |-> [pc |-> "idle", i |-> 0, layers |-> <<>>,
                            pending |-> <<>>, frames |-> 0, inst |-> 1]]
    /\ returned = <<>>

SpecRender == InitRender /\ [][NextRender]_vars

-----------------------------------------------------------------------------
(* Properties of the documents returned by render() *)

Docs == Range(returned)

\* the layers of a document that one loop of render() emitted, in order
Block(doc, blk) ==
    LET Of(l) == l.blk = blk IN SelectSeq(doc.layers, Of)

Names(layers) == [k \in DOMAIN layers |-> layers[k].nm]

\* the block order of the z-order contract, first element frontmost
ContractOrder ==
    << "arrows", "groups", "layer_labels", "layers", "icons", "services",
       "labels", "group_labels", "background" >>

Rank(blk) == CHOOSE k \in DOMAIN ContractOrder : ContractOrder[k] = blk

BlocksInOrder(doc) ==
    \A a, b \in DOMAIN doc.layers :
        a < b => Rank(doc.layers[a].blk) <= Rank(doc.layers[b].blk)

Labelled(entities) ==
    LET Has(e) == e.label # None IN SelectSeq(entities, Has)

ResolvableEdges(d) ==
    LET Ok(e) == Resolves(d, e.source_id) /\ Resolves(d, e.target_id)
    IN  SelectSeq(d.edges, Ok)

WithShapes(services) ==
    LET Has(x) == x.icon \in IconShapes IN SelectSeq(services, Has)

InVocabulary(services) ==
    LET Has(x) == x.icon \in ICONS IN SelectSeq(services, Has)

\* everything the contract says but the arrows: one layer per group, per
\* service box, per labelled service, per labelled group, in declaration
\* order, the blocks in contract order, one background, last
BlocksButArrows(doc) ==
    /\ BlocksInOrder(doc)
    /\ Names(Block(doc, "groups")) =
           [k \in DOMAIN diagram.groups |-> <<"Group", diagram.groups[k].id>>]
    /\ Names(Block(doc, "layers")) =
           [k \in DOMAIN diagram.layers |-> <<"Layer", diagram.layers[k].id>>]
    /\ Names(Block(doc, "layer_labels")) =
           [k \in DOMAIN Labelled(diagram.layers) |->
               <<"LayerLabel", Labelled(diagram.layers)[k].id>>]
    /\ \A k \in DOMAIN Block(doc, "icons") :
           \E x \in Range(diagram.services) :
               Block(doc, "icons")[k].nm = <<x.id, "_icon">>
    /\ Names(Block(doc, "services")) =
           [k \in DOMAIN diagram.services |-> <<diagram.services[k].id>>]
    /\ Names(Block(doc, "labels")) =
           [k \in DOMAIN Labelled(diagram.services) |->
               <<"Label", Labelled(diagram.services)[k].id>>]
    /\ Names(Block(doc, "group_labels")) =
           [k \in DOMAIN Labelled(diagram.groups) |->
               <<"Label", Labelled(diagram.groups)[k].id>>]
    /\ Len(Block(doc, "background")) = 1
    /\ doc.layers[Len(doc.layers)].blk = "background"
    /\ doc.layers[Len(doc.layers)].ty = 1

ArrowNames(edges) ==
    [k \in DOMAIN edges |-> <<"Arrow", edges[k].source_id, edges[k].target_id>>]

\* C1 as stated: the blocks in contract order, with one arrow layer per
\* edge of the edge list, in edge-list order.
C1_OnePerEdge ==
    \A doc \in Docs :
        /\ BlocksButArrows(doc)
        /\ Names(Block(doc, "arrows")) = ArrowNames(diagram.edges)

\* C1 (amended): every document returned by render() holds the blocks in
\* contract order - arrows, groups, layer labels, layer boxes, service icons,
\* service boxes, service labels, group labels, one background last - with
\* one arrow layer per edge whose two ends resolve, in edge-list order.
C1_BlockOrder ==
    \A doc \in Docs :
        /\ BlocksButArrows(doc)
        /\ Names(Block(doc, "arrows")) = ArrowNames(ResolvableEdges(diagram))

\* a document with a layer in each of the nine blocks, from a diagram that
\* also has an edge with an unresolved end
C1_Witness ==
    \E doc \in Docs :
        /\ \A blk \in Range(ContractOrder) : Block(doc, blk) # <<>>
        /\ Len(ResolvableEdges(diagram)) < Len(diagram.edges)

\* C2 as stated: the layer count is E + G + NLL + NL + I + S + L + GL + 1,
\* E the edges and I the services whose icon is in the icon vocabulary.
C2_CountAllEdgesVocabulary ==
    \A doc \in Docs :
        Len(doc.layers) =
            Len(diagram.edges) + Len(diagram.groups)
            + Len(Labelled(diagram.layers)) + Len(diagram.layers)
            + Len(InVocabulary(diagram.services)) + Len(diagram.services)
            + Len(Labelled(diagram.services)) + Len(Labelled(diagram.groups)) + 1

\* C2 (amended): the layer count is ER + G + NLL + NL + I + S + L + GL + 1,
\* ER the edges whose two ends resolve and I the services whose icon is one
\* the generator draws shapes for; it is 18 for the literal scenario.
C2_Count ==
    /\ \A doc \in Docs :
        Len(doc.layers) =
            Len(ResolvableEdges(diagram)) + Len(diagram.groups)
            + Len(Labelled(diagram.layers)) + Len(diagram.layers)
            + Len(WithShapes(diagram.services)) + Len(diagram.services)
            + Len(Labelled(diagram.services)) + Len(Labelled(diagram.groups)) + 1
    /\ \A doc \in Docs : diagram = ScenarioDiagram => Len(doc.layers) = 18

\* a document of a diagram with an edge that does not resolve, a service
\* whose icon is in the vocabulary but has no shapes, and a layer
C2_Witness ==
    \E doc \in Docs :
        /\ Len(ResolvableEdges(diagram)) < Len(diagram.edges)
        /\ Len(WithShapes(diagram.services)) < Len(InVocabulary(diagram.services))
        /\ diagram.layers # <<>>
        /\ Len(doc.layers) > 4

Inds(doc) == [k \in DOMAIN doc.layers |-> doc.layers[k].ind]

\* C3: in every returned document the k-th layer has ind = k, and all the
\* documents one renderer returns for the diagram carry the same ind values.
C3_IndIsPosition ==
    /\ \A doc \in Docs : \A k \in DOMAIN doc.layers : doc.layers[k].ind = k
    /\ \A d1, d2 \in Docs : Inds(d1) = Inds(d2)

\* two documents returned by the same renderer, of a diagram where an edge
\* and an icon emitted no layer
C3_Witness ==
    /\ Len(returned) >= 2
    /\ Len(ResolvableEdges(diagram)) < Len(diagram.edges)
    /\ Len(WithShapes(diagram.services)) < Len(diagram.services)
    /\ Len(returned[2].layers) >= 4

\* C8: every arrow layer has exactly two dash-offset keyframes, 0 at frame 0
\* and -120 (ten periods of 12) at frame op - 1.
C8_LoopContinuity ==
    \A doc \in Docs :
        \A k \in DOMAIN doc.layers :
            doc.layers[k].blk = "arrows" =>
                LET kf == doc.layers[k].k
                IN  /\ Len(kf) = 2
                    /\ kf[1] = [t |-> 0, s |-> 0]
                    /\ kf[2] = [t |-> doc.op - 1, s |-> -120]
                    /\ doc.op = (config.fps * config.duration_halves) \div 2
                    /\ kf[2].s % 12 = 0

\* arrows rendered at 60 fps for half a second: 30 frames
C8_Witness ==
    \E doc \in Docs :
        /\ Block(doc, "arrows") # <<>>
        /\ config.fps = 60
        /\ config.duration_halves = 1
        /\ doc.op = 30

\* what one iteration of loop p of render() makes of its item: one layer or
\* none
render_item(d, p, item, frames, idx) ==
    CASE p = "arrows" -> render_arrow(item, d, frames, idx)
      [] p = "groups" -> render_group(item, frames, idx)
      [] p = "layer_labels" ->
            IF item.label # None THEN render_layer_label(item, frames, idx) ELSE <<>>
      [] p = "layers" -> render_layer(item, frames, idx)
      [] p = "icons" -> render_service_icon(item, frames, idx)
      [] p = "services" -> render_service(item, frames, idx)
      [] p = "labels" ->
            IF item.label # None THEN render_label(item, frames, idx) ELSE <<>>
      [] p = "group_labels" ->
            IF item.label # None THEN render_group_label(item, frames, idx) ELSE <<>>
      [] OTHER -> << render_background(frames, idx) >>

\* the layers render() appends from item i of loop k onwards, layer_idx
\* being idx: a layer that is made takes idx and moves it on by one
RECURSIVE render_rest(_, _, _, _, _)
render_rest(d, k, i, frames, idx) ==
    IF k > Len(Phases)
    THEN <<>>
    ELSE IF i > Len(LoopItems(d, Phases[k]))
         THEN render_rest(d, k + 1, 1, frames, idx)
         ELSE LET made == render_item(d, Phases[k], LoopItems(d, Phases[k])[i], frames, idx)
              IN  made \o render_rest(d, k, i + 1, frames, idx + Len(made))

\* the layer list of render(d), layer_idx reset to 1 at entry
render_layers(d, frames) == render_rest(d, 1, 1, frames, 1)

\* the documents in hand where render() returns: those of the calls that
\* are at their return statement (a document, once returned, is a value
\* that no step changes)
AtReturn ==
    { returned[k] : k \in { n \in DOMAIN returned : rc[returned[n].call].pc = "done" } }

\* the diagram without the edges that have an unresolved end
WithoutDangling(d) == [d EXCEPT !.edges = ResolvableEdges(d)]

\* C11: render() of a diagram with edges whose source or target does not
\* resolve returns a document (no error), with no arrow layer for those
\* edges; at its return its layers - their order, their contents and
\* their ind values - are exactly those render() makes of the same diagram
\* with those edges removed from the edge list.
C11_DanglingEdgeAbsent ==
    \A doc \in AtReturn :
        /\ doc.layers = render_layers(WithoutDangling(diagram), doc.op)
        /\ \A k \in DOMAIN doc.layers : doc.layers[k].ind = k
        /\ Names(Block(doc, "arrows")) = ArrowNames(ResolvableEdges(diagram))

\* a document of a diagram whose first edge dangles and whose second edge
\* resolves, with groups and a service after the arrow
C11_Witness ==
    \E doc \in Docs :
        /\ Len(diagram.edges) = 2
        /\ ~Resolves(diagram, diagram.edges[1].target_id)
        /\ Len(ResolvableEdges(diagram)) = 1
        /\ Len(Block(doc, "arrows")) = 1
        /\ doc.layers[1].nm = <<"Arrow", diagram.edges[2].source_id, diagram.edges[2].target_id>>
        /\ Block(doc, "groups") # <<>>
        /\ Block(doc, "services") # <<>>

\* the RGB value a service box layer is filled with: self.config.colors of
\* the colour key _get_color chose
Fill(layer) == (CHOOSE p \in colors : p[1] = layer.color)[2]

\* the fallback colour: the 'server' theme colour
FallbackColor == (CHOOSE p \in colors : p[1] = ICON.server)[2]

ColorKeyed(icon) == \E p \in ICON_COLORS : p[1] = icon

\* no icon layer for the services the generator draws no shapes for, one box
\* layer per service, ind values consecutive
IconLayersOnlyWithShapes(doc) ==
    /\ Names(Block(doc, "icons")) =
           [k \in DOMAIN WithShapes(diagram.services) |->
               <<WithShapes(diagram.services)[k].id, "_icon">>]
    /\ Names(Block(doc, "services")) =
           [k \in DOMAIN diagram.services |-> <<diagram.services[k].id>>]
    /\ \A k \in DOMAIN doc.layers : doc.layers[k].ind = k

\* C12 as stated: every service whose icon is absent or has no shapes in
\* the generator gets no icon layer and a box filled with the fallback
\* colour.
C12_NoShapesFallbackColor ==
    \A doc \in Docs :
        /\ IconLayersOnlyWithShapes(doc)
        /\ \A k \in DOMAIN diagram.services :
               diagram.services[k].icon \notin IconShapes =>
                   Fill(Block(doc, "services")[k]) = FallbackColor

\* C12 (amended): in the document render() returns, a service whose icon
\* is absent or is a keyword the generator draws no shapes for gets no icon
\* layer and consumes no ind, and its box layer is still emitted; the box is filled with the fallback
\* ('server') colour when the icon is absent or is not a key of the
\* icon-to-colour table, and with the cloud_stroke colour, which is not the
\* fallback colour, when the icon is cloud.
C12_NoShapesNoIconLayer ==
    \A doc \in AtReturn :
        /\ IconLayersOnlyWithShapes(doc)
        /\ \A k \in DOMAIN diagram.services :
               LET icon == diagram.services[k].icon
                   box == Block(doc, "services")[k]
               IN  /\ ~ColorKeyed(icon) => Fill(box) = FallbackColor
                   /\ icon = ICON.cloud =>
                          /\ Fill(box) = <<306, 804, 769>>
                          /\ Fill(box) # FallbackColor
                   /\ icon \notin IconShapes =>
                          ~ColorKeyed(icon) \/ icon = ICON.cloud

\* a document of a diagram with a cloud service and a service whose icon is
\* no keyword at all: two boxes, no icon layer
C12_Witness ==
    \E doc \in Docs :
        /\ Len(diagram.services) = 2
        /\ diagram.services[1].icon = ICON.cloud
        /\ diagram.services[2].icon = S_zzz
        /\ Block(doc, "icons") = <<>>
        /\ Len(Block(doc, "services")) = 2

-----------------------------------------------------------------------------
(* Two render() calls that may overlap in time *)

\* Diagrams of one service (with or without icon and label) and nothing
\* else: the loops of render() over edges, groups and layers have no item.
ConcDiagrams ==
    { [ArchitectureDiagram EXCEPT
          !.services = << Service(Id("s", 1), kind.icon, kind.label, None) >>] :
        kind \in ServiceKinds }

NextConc ==
    \/ \E c \in DOMAIN rc : RenderEntry(c)
    \/ \E c \in DOMAIN rc : RenderServiceIcon(c)
    \/ \E c \in DOMAIN rc : RenderService(c)
    \/ \E c \in DOMAIN rc : RenderLabel(c)
    \/ \E c \in DOMAIN rc : RenderIncr(c)
    \/ \E c \in DOMAIN rc : RenderBackground(c)

\* The two calls run on the same LottieRenderer or each on its own (as
\* render_to_lottie constructs one per call).
InitConc ==
    /\ diagram \in ConcDiagrams
    /\ stage = "render"
    /\ ParseIdle
    /\ LayoutIdle
    /\ config = [fps |-> 60, duration_halves |-> 1]
    /\ layer_idx = [r \in {1, 2} |-> 1]
    /\ \E insts \in { <<1, 1>>, <<1, 2>> } :
           rc = [c \in {1, 2} |-> [pc |-> "idle", i |-> 0, layers |-> <<>>,
                                   pending |-> <<>>, frames |-> 0,
                                   inst |-> insts[c]]]
    /\ returned = <<>>

SpecConc == InitConc /\ [][NextConc]_vars

\* C4 as stated: whatever the interleaving of two calls on one renderer,
\* every document has ind = 1..n in emission order.
C4_ResetIsolates ==
    (\A a, b \in DOMAIN rc : rc[a].inst = rc[b].inst) =>
        \A doc \in Docs : \A k \in DOMAIN doc.layers : doc.layers[k].ind = k

\* C4 (amended): when each of the two calls runs on its own LottieRenderer,
\* then for every interleaving the layers each call has emitted, and each
\* document returned, have ind = 1..n in emission order.
C4_OwnInstanceIsolates ==
    (\A a, b \in DOMAIN rc : a # b => rc[a].inst # rc[b].inst) =>
        /\ \A c \in DOMAIN rc :
               \A k \in DOMAIN rc[c].layers : rc[c].layers[k].ind = k
        /\ \A doc \in Docs : \A k \in DOMAIN doc.layers : doc.layers[k].ind = k

\* two calls on their own renderers, in progress at once, one having
\* emitted three layers and the other two
C4_Witness ==
    /\ rc[1].inst # rc[2].inst
    /\ Active(1) /\ Active(2)
    /\ Len(rc[1].layers) = 3
    /\ Len(rc[2].layers) = 2

-----------------------------------------------------------------------------
(* Diagrams handed to layout(): the standard strategy *)

N(k) == Id("n", k)

\* four services and a junction, no group
GraphNodes ==
    [ArchitectureDiagram EXCEPT
        !.services = [k \in 1..4 |-> Service(N(k), None, None, None)],
        !.junctions = << Junction(N(5), None) >>]

\* n1 right of it n2, below it n3; n2 below it n4 (a 2x2 block), n5 left of
\* n2 (the cell of n1); n3 right of it n4 (closes a cycle)
GraphEdgePool ==
    { Edge(N(1), "R", N(2), "L", FALSE),
      Edge(N(1), "B", N(3), "T", FALSE),
      Edge(N(2), "B", N(4), "T", TRUE),
      Edge(N(2), "L", N(5), "R", TRUE),
      Edge(N(3), "R", N(4), "L", FALSE) }

GraphDiagrams ==
    { [GraphNodes EXCEPT !.edges = e] :
        e \in UNION { [1..n -> GraphEdgePool] : n \in 0..MaxGraphEdges } }

G(k) == Id("g", k)

\* no group; one; two nested, the outer declared first; two nested, the
\* inner declared first; two side by side
GroupShapes ==
    { <<>>,
      << Group(G(1), None, None, None) >>,
      << Group(G(1), None, None, None), Group(G(2), None, None, G(1)) >>,
      << Group(G(2), None, None, G(1)), Group(G(1), None, None, None) >>,
      << Group(G(1), None, None, None), Group(G(2), None, None, None) >> }

Parents == { None, G(1), G(2) }

\* two services and possibly a junction, in or out of the groups, with at
\* most one edge
GroupDiagrams ==
    { [groups |-> g,
       services |-> << Service(Id("s", 1), None, None, p1),
                       Service(Id("s", 2), None, None, p2) >>,
       junctions |-> j, edges |-> e, layers |-> <<>>] :
        g \in GroupShapes, p1 \in Parents, p2 \in Parents,
        j \in { <<>>, << Junction(Id("j", 1), None) >>, << Junction(Id("j", 1), G(2)) >> },
        e \in { <<>>,
                << Edge(Id("s", 1), "R", Id("s", 2), "L", TRUE) >>,
                << Edge(Id("s", 1), "B", Id("j", 1), "T", FALSE) >> } }

RenderIdle ==
    /\ config = LottieConfig
    /\ layer_idx = [r \in {1} |-> 1]
    /\ rc = [c \in {1} |-> [pc |-> "idle", i |-> 0, layers |-> <<>>,
                            pending |-> <<>>, frames |-> 0, inst |-> 1]]
    /\ returned = <<>>

InitLayout ==
    /\ diagram \in GraphDiagrams \cup GroupDiagrams
    /\ stage = "layout"
    /\ ParseIdle
    /\ LayoutIdle
    /\ RenderIdle

SpecLayout == InitLayout /\ [][NextLayout]_vars

\* layout() run twice, each time on the diagram as parsed, the second run
\* from the origin of the first
InitRerun ==
    /\ diagram \in GroupDiagrams
    /\ stage = "layout"
    /\ ParseIdle
    /\ LayoutIdle
    /\ RenderIdle

SpecRerun == InitRerun /\ [][NextRerun]_vars

-----------------------------------------------------------------------------
(* Properties of the standard layout *)

GridAssigned == lpc \in {"groups", "done"}

\* C5: after grid assignment, a cell given by a probe of fewer than 20
\* steps, or given to a disconnected node, was unoccupied when it was
\* assigned, and two placed ids share a cell only if the later one got it
\* from a probe that used all 20 attempts.
C5_CellsDistinctButExhausted ==
    GridAssigned =>
        /\ \A j \in DOMAIN placed :
               (placed[j].how = "scan"
                \/ (placed[j].how = "probe" /\ placed[j].attempts < 20))
               => /\ placed[j].free
                  /\ \A i \in 1..(j - 1) : placed[i].cell # placed[j].cell
        /\ \A i, j \in DOMAIN placed :
               (i < j /\ placed[i].cell = placed[j].cell)
               => (placed[j].how = "probe" /\ placed[j].attempts = 20)
        /\ \A j \in DOMAIN placed :
               /\ placed[j].id \in DOMAIN grid_pos
               /\ grid_pos[placed[j].id] = placed[j].cell
               /\ \A i \in DOMAIN placed : i # j => placed[i].id # placed[j].id

\* a probe that used its 20 attempts and ended on the cell of an earlier
\* node, in a run where another node took its candidate cell at once
C5_Witness ==
    /\ GridAssigned
    /\ \E i, j \in DOMAIN placed :
           i < j /\ placed[i].cell = placed[j].cell /\ placed[j].attempts = 20
    /\ \E j \in DOMAIN placed :
           placed[j].how = "probe" /\ placed[j].attempts = 0

Left(e) == e.x - e.width \div 2

Right(e) == e.x + e.width \div 2

Top(e) == e.y - e.height \div 2

Bottom(e) == e.y + e.height \div 2

ChildrenOf(g) ==
    { get_node(diagram, id) : id \in Range(get_children(diagram, g.id)) }

\* C6 as stated: after layout() the box of every group with children is the
\* union of the final boxes of its direct children expanded by
\* group_padding, and an empty group has the default size.
C6_GroupBoxIsPaddedUnion ==
    lpc = "done" =>
        \A g \in Range(diagram.groups) :
            IF ChildrenOf(g) = {}
            THEN /\ g.width = node_width + 2 * group_padding
                 /\ g.height = node_height + 2 * group_padding
            ELSE /\ Left(g) = Min({ Left(c) : c \in ChildrenOf(g) }) - group_padding
                 /\ Right(g) = Max({ Right(c) : c \in ChildrenOf(g) }) + group_padding
                 /\ Top(g) = Min({ Top(c) : c \in ChildrenOf(g) }) - group_padding
                 /\ Bottom(g) = Max({ Bottom(c) : c \in ChildrenOf(g) }) + group_padding

\* C7 as stated: a second run on an equal diagram from the same origin
\* ends with the coordinates of the first.
C7_SameOriginSameCoordinates ==
    (run = 2 /\ lpc = "done" /\ origin = first.origin) => diagram = first.diagram

-----------------------------------------------------------------------------
(* Texts handed to parse() *)

MaxLines == 3

\* well-formed lines of the five kinds (one re-declaring s1, indented), a
\* comment, the diagram type declaration, an empty line, and malformed lines:
\* a port letter outside LRTB, a keyword without id, an icon without its
\* closing parenthesis, "in" without parent, an edge with a single dash
LinePool ==
    { Decl(KEYWORD.service, Id("s", 1), ICON.server, L_Web, Id("g", 1)),
      Sp \o Sp \o Decl(KEYWORD.service, Id("s", 1), None, None, None) \o Sp,
      Decl(KEYWORD.group, Id("g", 1), ICON.cloud, L_Web, None),
      Decl(KEYWORD.junction, Id("j", 1), None, None, Id("g", 1)),
      Decl(KEYWORD.layer, Id("l", 1), None, L_Web, None),
      EdgeText(Id("s", 1), "R", Dash2 \o << ">" >>, "L", Id("j", 1)),
      Id("s", 1) \o << ":", "B", "-", "T", ":" >> \o Id("g", 1),
      EdgeText(Id("s", 1), "X", Dash2, "L", Id("j", 1)),
      KEYWORD.service,
      KEYWORD.service \o Sp \o Id("s", 2) \o << "(" >> \o ICON.server \o << "[" >> \o L_Web \o << "]" >>,
      KEYWORD.service \o Sp \o Id("s", 2) \o Sp \o W_in,
      << "#" >> \o Sp \o Decl(KEYWORD.group, Id("g", 2), None, None, None),
      KEYWORD.architecture \o << "-", "b", "e", "t", "a" >>,
      <<>> }

Texts ==
    { Join(f, << "\n" >>) :
        f \in UNION { [1..n -> LinePool] : n \in 0..MaxLines } }

\* parse(text) is entered: diagram = ArchitectureDiagram(), layer_order = 0,
\* lines = text.strip().split('\n')
ParseEntered(raw) ==
    /\ stage = "parse"
    /\ diagram = ArchitectureDiagram
    /\ layer_order = 0
    /\ text = split(strip(raw), "\n")
    /\ parsed = <<>>

InitParse ==
    /\ \E raw \in Texts : ParseEntered(raw)
    /\ LayoutIdle
    /\ RenderIdle

\* parse() is a sequential loop whose next step is always taken: weak
\* fairness of NextParse, WF_vars(NextParse), written out.  A step of
\* NextParse is possible exactly while stage = "parse" (either the loop body
\* or the return, and each changes text or stage).
ParseRuns == []<>(stage # "parse") \/ []<><<NextParse>>_vars

SpecParse == InitParse /\ [][NextParse]_vars /\ ParseRuns

-----------------------------------------------------------------------------
(* Properties of parse() *)

Entities(d) ==
    Len(d.groups) + Len(d.services) + Len(d.junctions) + Len(d.layers)
    + Len(d.edges)

\* the line matches none of the five patterns
NoPattern(raw) ==
    /\ ~PATTERN_LAYER(strip(raw)).matched
    /\ ~PATTERN_GROUP(strip(raw)).matched
    /\ ~PATTERN_SERVICE(strip(raw)).matched
    /\ ~PATTERN_JUNCTION(strip(raw)).matched
    /\ ~PATTERN_EDGE(strip(raw)).matched

\* the diagram after the k-th processed line
AfterLine(k) == IF k < Len(parsed) THEN parsed[k + 1].before ELSE diagram

IsPrefix(s, t) == Len(s) <= Len(t) /\ SubSeq(t, 1, Len(s)) = s

C10_LineByLine ==
    /\ stage # "raised"
    /\ \A k \in DOMAIN parsed :
           LET before == parsed[k].before
               after == AfterLine(k)
           IN  /\ NoPattern(parsed[k].line) => after = before
               /\ Entities(after) - Entities(before) \in {0, 1}
               /\ Keys(before.groups) \subseteq Keys(after.groups)
               /\ Keys(before.services) \subseteq Keys(after.services)
               /\ Keys(before.junctions) \subseteq Keys(after.junctions)
               /\ Keys(before.layers) \subseteq Keys(after.layers)
               /\ IsPrefix(before.edges, after.edges)

\* C10: parse(text) never raises and returns; a line that matches none of
\* the five patterns leaves the diagram as it was, and every processed line
\* adds at most one entity or edge and removes none.
C10_ParseTotal == []C10_LineByLine /\ <>(stage = "layout")

\* parse() has returned after a malformed line left a non-empty diagram
\* untouched, a line added an entity and a line re-declared one
C10_Witness ==
    /\ stage = "layout"
    /\ \E k \in DOMAIN parsed :
           /\ NoPattern(parsed[k].line)
           /\ strip(parsed[k].line) # <<>>
           /\ Entities(parsed[k].before) > 0
    /\ \E k \in DOMAIN parsed : Entities(AfterLine(k)) > Entities(parsed[k].before)
    /\ \E k \in DOMAIN parsed :
           /\ Entities(AfterLine(k)) = Entities(parsed[k].before)
           /\ AfterLine(k) # parsed[k].before

-----------------------------------------------------------------------------
(* The pipeline on the literal scenario: parse, layout, render *)

Init ==
    /\ ParseEntered(ScenarioText)
    /\ LayoutIdle
    /\ RenderIdle

\* parser.parse(test_input), layout.layout(diagram) from any origin, then
\* render(diagram) on one renderer
Next ==
    \/ ParseLine
    \/ ParseReturn
    \/ LayoutBegin
    \/ BfsDequeue
    \/ BfsNeighbor
    \/ ApplyGrid
    \/ GroupBounds
    \/ Center
    \/ \E c \in DOMAIN rc : RenderEntry(c)
    \/ \E c \in DOMAIN rc : RenderArrow(c)
    \/ \E c \in DOMAIN rc : RenderGroup(c)
    \/ \E c \in DOMAIN rc : RenderServiceIcon(c)
    \/ \E c \in DOMAIN rc : RenderService(c)
    \/ \E c \in DOMAIN rc : RenderLabel(c)
    \/ \E c \in DOMAIN rc : RenderGroupLabel(c)
    \/ \E c \in DOMAIN rc : RenderIncr(c)
    \/ \E c \in DOMAIN rc : RenderBackground(c)

Spec == Init /\ [][Next]_vars

X(id) == Lookup(diagram.services, id).x

-----------------------------------------------------------------------------
(* The pipeline on short texts: parse, layout in either strategy, render *)

MaxPipeLines == 3

\* a layered diagram: two layers, a service in the first and one in no
\* layer, a group, an edge
LayeredLinePool ==
    { Decl(KEYWORD.layer, Id("l", 1), None, L_Web, None),
      Decl(KEYWORD.layer, Id("l", 2), None, None, None),
      Decl(KEYWORD.service, Id("s", 1), None, None, Id("l", 1)),
      Decl(KEYWORD.service, Id("s", 2), None, None, None),
      Decl(KEYWORD.group, Id("g", 1), ICON.cloud, L_Web, None),
      EdgeText(Id("s", 1), "R", Dash2 \o << ">" >>, "L", Id("s", 2)) }

\* a diagram without layers: groups that nest (g2 in g1) or close a parent
\* cycle (g1 in g2), a service in a group, a junction, a group under the id
\* of the service, and two edges: s1 to the undeclared s2 and s1 to itself
StandardLinePool ==
    { Decl(KEYWORD.group, Id("g", 1), ICON.cloud, L_Web, None),
      Decl(KEYWORD.group, Id("g", 2), None, None, Id("g", 1)),
      Decl(KEYWORD.group, Id("g", 1), None, None, Id("g", 2)),
      Decl(KEYWORD.service, Id("s", 1), ICON.server, L_Web, Id("g", 2)),
      Decl(KEYWORD.junction, Id("j", 1), None, None, Id("g", 1)),
      Decl(KEYWORD.group, Id("s", 1), None, None, None),
      EdgeText(Id("s", 1), "R", Dash2 \o << ">" >>, "L", Id("s", 2)),
      EdgeText(Id("s", 1), "B", Dash2, "T", Id("s", 1)) }

\* the texts of up to MaxPipeLines lines of a pool
TextsOver(pool) ==
    { Join(f, << "\n" >>) :
        f \in UNION { [1..n -> pool] : n \in 0..MaxPipeLines } }

PipeTexts == TextsOver(LayeredLinePool) \cup TextsOver(StandardLinePool)

InitPipe ==
    /\ \E raw \in PipeTexts : ParseEntered(raw)
    /\ LayoutIdle
    /\ RenderIdle

\* diagram = parser.parse(text); layout.layout(diagram); render(diagram)
NextPipe ==
    \/ NextParse
    \/ NextLayout
    \/ NextLayered
    \/ NextRender

SpecPipe == InitPipe /\ [][NextPipe]_vars

\* layout() is sequential code whose next step is always taken
LayoutRuns == WF_vars(NextLayout \/ NextLayered)

SpecPipeLive == InitPipe /\ [][NextPipe]_vars /\ ParseRuns /\ LayoutRuns

\* the ids given a grid cell so far, in the order of assignment
PlacedIds == [k \in DOMAIN placed |-> placed[k].id]

Once(seq, e) == Cardinality({ k \in DOMAIN seq : seq[k] = e }) = 1

\* while layout() runs one of its steps can be taken (no error stops it);
\* in the standard strategy no id is given a cell or enqueued twice, and
\* when the grid is complete every service and junction has one cell; the
\* document rendered from the empty diagram has the background layer only
C13_Safe ==
    /\ stage = "layout" => ENABLED (NextLayout \/ NextLayered)
    /\ \A id \in Range(PlacedIds) : Once(PlacedIds, id)
    /\ DOMAIN grid_pos = Range(PlacedIds)
    /\ \A a, b \in DOMAIN queue : queue[a][1] = queue[b][1] => a = b
    /\ \A a \in DOMAIN queue : queue[a][1] \in visited
    /\ (cur # NoCur) => \A a \in DOMAIN queue : queue[a][1] # cur[1].node_id
    /\ lpc \in {"groups", "done"} /\ Len(input.layers) = 0 =>
           Keys(input.services) \cup Keys(input.junctions) \subseteq DOMAIN grid_pos
    /\ \A doc \in Docs :
           input = ArchitectureDiagram => Names(doc.layers) = << <<"Background">> >>

\* C13: layout() terminates without error on every finite diagram, in both
\* strategies (the empty diagram, self-loops and edge cycles, edges naming
\* undeclared ids, groups without children, parent cycles); in the standard
\* strategy every service and junction gets exactly one grid cell and no id
\* is enqueued twice; the document rendered from the empty diagram has the
\* background as its only layer.
C13_LayoutTerminates == []C13_Safe /\ <>(lpc = "done")

\* the standard strategy has ended on a diagram of two groups that are each
\* other's parent and one service
C13_Witness ==
    /\ lpc = "done"
    /\ Len(input.groups) = 2
    /\ input.groups[1].parent = Id("g", 2)
    /\ input.groups[2].parent = Id("g", 1)
    /\ Len(input.services) = 1
    /\ DOMAIN grid_pos = { Id("s", 1) }

\* the mappings of a diagram that have id as a key
KindsOf(d, id) ==
    { kind \in {"services", "groups", "junctions", "layers"} : id \in Keys(d[kind]) }

\* C14 as stated: after parse() of any input no id is a key of more than
\* one of the mappings services, groups, junctions, layers.
C14_IdsGloballyUnique ==
    stage # "parse" =>
        \A kind \in {"services", "groups", "junctions", "layers"} :
            \A id \in Keys(input[kind]) : KindsOf(input, id) = {kind}

\* the edge a line of the text stands for, if it is a matched edge line: not
\* skipped, matched by none of the four declaration patterns and matched by
\* the edge pattern
EdgeOfLine(raw) ==
    LET line == strip(raw)
        match == PATTERN_EDGE(line)
    IN  IF \/ line = <<>>
           \/ line[1] = "#"
           \/ StartsWith(line, 1, KEYWORD.architecture)
           \/ PATTERN_LAYER(line).matched
           \/ PATTERN_GROUP(line).matched
           \/ PATTERN_SERVICE(line).matched
           \/ PATTERN_JUNCTION(line).matched
           \/ ~match.matched
        THEN <<>>
        ELSE << Edge(match.groups[1], match.groups[2], match.groups[5],
                     match.groups[4], ">" \in Range(match.groups[3])) >>

\* the edges of the first k lines of the text, in input order
RECURSIVE EdgesOfLines(_)
EdgesOfLines(k) ==
    IF k = 0 THEN <<>> ELSE EdgesOfLines(k - 1) \o EdgeOfLine(parsed[k].line)

\* C15: edge order is preserved end to end.  While parse() and layout()
\* run the edge list holds one entry per matched edge line processed so
\* far, in input order, duplicates kept; from the return of parse() on the
\* list stays as parse() returned it; the arrow layers of the document
\* render() returns are those of the matched edge lines whose two ends
\* resolve, in input order.
C15_EdgeOrderEndToEnd ==
    /\ stage # "render" => diagram.edges = EdgesOfLines(Len(parsed))
    /\ stage # "parse" => diagram.edges = input.edges
    /\ \A doc \in AtReturn :
           LET Ok(e) == Resolves(input, e.source_id) /\ Resolves(input, e.target_id)
           IN  Names(Block(doc, "arrows")) =
                   ArrowNames(SelectSeq(EdgesOfLines(Len(parsed)), Ok))

\* a document from a text whose first edge line has an undeclared target and
\* whose second edge line resolves, after a layout that placed the service:
\* one arrow, that of the second line
C15_Witness ==
    \E doc \in Docs :
        /\ Len(input.edges) = 2
        /\ input.edges[1].target_id = Id("s", 2)
        /\ input.edges[2].target_id = Id("s", 1)
        /\ ~Resolves(input, Id("s", 2))
        /\ lpc = "done"
        /\ Names(Block(doc, "arrows")) = << <<"Arrow", Id("s", 1), Id("s", 1)>> >>

\* the entities of one mapping are the same but for the fields named
SameBut(before, after, fields) ==
    /\ Len(before) = Len(after)
    /\ \A k \in DOMAIN before :
           \A f \in DOMAIN before[k] \ fields : after[k][f] = before[k][f]

\* layout() has written position fields of services and junctions and box
\* fields of groups and layers, and nothing else
OnlyGeometryChanged(before, after) ==
    /\ after.edges = before.edges
    /\ SameBut(before.services, after.services, {"x", "y"})
    /\ SameBut(before.junctions, after.junctions, {"x", "y"})
    /\ SameBut(before.groups, after.groups, {"x", "y", "width", "height"})
    /\ SameBut(before.layers, after.layers, {"x", "y", "width", "height"})

\* C16: layout() changes only position and size fields - the key sets and
\* their order, the edge list, every id, icon, label, parent and layer order
\* stay as parse() returned them, and so do the width and height of every
\* service and junction - and no step of render() changes the diagram.
C16_LayoutFrame ==
    /\ [](stage # "parse" => OnlyGeometryChanged(input, diagram))
    /\ [][stage = "render" => diagram' = diagram]_vars

\* render() has returned a document for a diagram in which layout() moved a
\* service and gave a group its box
C16_Witness ==
    /\ Docs # {}
    /\ diagram # input
    /\ \E k \in DOMAIN diagram.services : diagram.services[k].x > 0
    /\ \E k \in DOMAIN diagram.groups : diagram.groups[k].width > 0

\* nothing of the standard strategy has run: no adjacency, no grid cell, no
\* group given a box
StandardUntouched ==
    /\ lpc \in {"start", "layers", "done"}
    /\ adj = <<>>
    /\ grid_pos = <<>>
    /\ placed = <<>>
    /\ gi = 1
    /\ \A k \in DOMAIN diagram.groups :
           /\ diagram.groups[k].width = 0
           /\ diagram.groups[k].height = 0

\* nothing of the layered strategy has run
LayeredUntouched ==
    /\ lpc \in {"start", "grid", "groups", "done"}
    /\ lay = NoLay

\* C17: layout() runs the layered strategy exactly when the diagram has at
\* least one layer, and never mixes the two: on a diagram with a layer every
\* step of layout() is a step of the layered strategy and none of the
\* standard passes leaves a trace; on a diagram without layers every step is
\* a step of the standard strategy and no layer placement is made.
C17_StrategyDispatch ==
    /\ [](stage # "parse" =>
             IF Len(input.layers) > 0 THEN StandardUntouched ELSE LayeredUntouched)
    /\ [][stage = "layout" =>
             IF Len(diagram.layers) > 0 THEN NextLayered ELSE NextLayout]_vars

\* the layered strategy has ended on a diagram that also has a group and a
\* service outside every layer, which the standard passes would have placed
C17_Witness ==
    /\ lpc = "done"
    /\ Len(input.layers) = 1
    /\ Len(input.groups) = 1
    /\ Len(input.services) = 1
    /\ input.services[1].parent = None
    /\ lay.k = 2

\* the services and junctions of a diagram
Nodes(d) == Range(d.services) \cup Range(d.junctions)

\* how far each entity of one mapping has moved
Moves(before, after) ==
    { << after[k].x - before[k].x, after[k].y - before[k].y >> : k \in DOMAIN before }

\* C18: the standard layout of a diagram with at least one service or
\* junction ends with min(x - width/2) = canvas_padding and
\* min(y - height/2) = canvas_padding over the services and junctions
\* (groups not counted); the centring step moves every service, junction and
\* group by one and the same offset and changes no size.
C18_CenteredAtPadding ==
    /\ [](lpc = "done" /\ Len(input.layers) = 0 /\ Nodes(diagram) # {} =>
            /\ Min({ n.x - n.width \div 2 : n \in Nodes(diagram) }) = canvas_padding
            /\ Min({ n.y - n.height \div 2 : n \in Nodes(diagram) }) = canvas_padding)
    /\ [][lpc = "groups" /\ lpc' = "done" =>
            /\ Cardinality(Moves(diagram.services, diagram'.services)
                           \cup Moves(diagram.junctions, diagram'.junctions)
                           \cup Moves(diagram.groups, diagram'.groups)) <= 1
            /\ OnlyGeometryChanged(diagram, diagram')
            /\ SameBut(diagram.groups, diagram'.groups, {"x", "y"})]_vars

\* the standard layout has ended on a junction inside a group: the grid put
\* the junction at (90, 90), its left edge at 80, so that centring moved the
\* junction and the group box by (-30, -30)
C18_Witness ==
    /\ lpc = "done"
    /\ Len(input.layers) = 0
    /\ Len(diagram.junctions) = 1
    /\ Len(diagram.services) = 0
    /\ Len(diagram.groups) = 1
    /\ diagram.junctions[1].x = 60
    /\ diagram.junctions[1].y = 60
    /\ diagram.groups[1].x = 60
    /\ diagram.groups[1].width = 100

\* the entity is not at its parse-time default position (0, 0); every
\* position layout() writes is at least canvas_padding in both coordinates
Positioned(e) == e.x > 0 /\ e.y > 0

\* C19 as stated: after layout() in either strategy every service and
\* junction has a position written by the engine and every group and layer
\* a box written by the engine; none is left at its parse-time default
\* position or with a zero-size box.
C19_EverythingPlaced ==
    lpc = "done" =>
        /\ \A n \in Nodes(diagram) : Positioned(n)
        /\ \A c \in Range(diagram.groups) \cup Range(diagram.layers) :
               Positioned(c) /\ c.width > 0 /\ c.height > 0

\* group j is a child group of group k, as _calculate_group_bounds sees it:
\* its parent is k's id and get_node of its id answers the group itself;
\* two groups that are each other's parent are left aside
ChildGroup(d, k, j) ==
    /\ j # k
    /\ d.groups[j].parent = d.groups[k].id
    /\ d.groups[k].parent # d.groups[j].id
    /\ d.groups[j].id \notin Keys(d.services) \cup Keys(d.junctions)

\* C20 as stated: during the group-bounds pass no group's box is computed
\* before the box of each of its child groups has been computed in that
\* pass, whatever the declaration order.  (gi is the index of the next
\* group of the pass: the groups before it have their box.)
C20_ChildGroupsFirst ==
    lpc \in {"groups", "done"} =>
        \A k \in DOMAIN diagram.groups :
            k < gi =>
                \A j \in DOMAIN diagram.groups :
                    ChildGroup(diagram, k, j) => j < k
-----------------------------------------------------------------------------
(* Properties of the grid assignment *)

\* the cell "to" lies on the side of the cell "from" that the port names
SideOf(port, from, to) ==
    CASE port = "R" -> to[2] > from[2]
      [] port = "L" -> to[2] < from[2]
      [] port = "B" -> to[1] > from[1]
      [] OTHER -> to[1] < from[1]

\* C21 as stated: after grid assignment, for every edge with both ends
\* placed, the target lies on the side of the source named by the source
\* port and the source on the side of the target named by the target port.
C21_PortsConsistent ==
    GridAssigned =>
        \A e \in Range(diagram.edges) :
            (e.source_id \in DOMAIN grid_pos /\ e.target_id \in DOMAIN grid_pos)
            => /\ SideOf(e.source_dir, grid_pos[e.source_id], grid_pos[e.target_id])
               /\ SideOf(e.target_dir, grid_pos[e.target_id], grid_pos[e.source_id])

\* the cell next to (row, col) on the side the port names
Candidate(row, col, port) ==
    CASE port = "R" -> <<row, col + 1>>
      [] port = "L" -> <<row, col - 1>>
      [] port = "B" -> <<row + 1, col>>
      [] OTHER -> <<row - 1, col>>

\* the adjacency entry the BFS has in hand
Entry == AdjOf(adj, cur[1].node_id)[cur[1].k]

\* the BFS step in hand reaches a neighbour that is not visited yet
ReachesNew == lpc = "grid" /\ cur # NoCur /\ Entry[1] \notin visited

-----------------------------------------------------------------------------
(* Diagrams with a long row of cells: a chain of edges that leaves s1 through
   ids declared as nothing, and two more services, one in a group; possibly
   an edge between these two, or an edge from s1 to the group *)

MaxChain == 10

\* x, xx, xxx, ...
ChainId(k) == [i \in 1..k |-> "x"]

\* s1:D --> D':x, x:D --> D':xx, ... (n edges leaving through port D)
ChainEdges(n, port, far) ==
    [k \in 1..n |->
        Edge(IF k = 1 THEN Id("s", 1) ELSE ChainId(k - 1), port, ChainId(k), far, TRUE)]

ChainDiagrams ==
    { [ArchitectureDiagram EXCEPT
          !.groups = << Group(G(1), None, None, None) >>,
          !.services = << Service(Id("s", 1), None, None, None),
                          Service(Id("s", 2), None, None, G(1)),
                          Service(Id("s", 3), None, None, None) >>,
          !.edges = ChainEdges(n, ports[1], ports[2]) \o tail] :
        n \in 0..MaxChain,
        ports \in { <<"R", "L">>, <<"L", "R">> },
        tail \in { <<>>,
                   << Edge(Id("s", 2), "B", Id("s", 3), "T", FALSE) >>,
                   << Edge(Id("s", 1), "T", G(1), "B", FALSE) >> } }

InitChain ==
    /\ diagram \in ChainDiagrams
    /\ stage = "layout"
    /\ ParseIdle
    /\ LayoutIdle
    /\ RenderIdle

SpecChain == InitChain /\ [][NextLayout]_vars

\* the first cell outside occ in row-major order from (0, 0), over rows of
\* the given width
ScanFirst(occ, width) ==
    LET cells == ((0..Cardinality(occ)) \X (0..(width - 1))) \ occ
        Before(p, q) == p[1] < q[1] \/ (p[1] = q[1] /\ p[2] <= q[2])
    IN  CHOOSE p \in cells : \A q \in cells : Before(p, q)

\* the step in hand places a node the BFS did not reach
PlacesUnreached ==
    /\ lpc = "grid"
    /\ Len(placed') > Len(placed)
    /\ placed'[Len(placed')].how = "scan"

\* the placement of unreached nodes, over rows of the given width
ScanPlacement(width) ==
    PlacesUnreached =>
        LET p == placed'[Len(placed')]
        IN  /\ queue = <<>> /\ cur = NoCur
            /\ p.id \in all_nodes(diagram) \ visited
            /\ p.cell = ScanFirst(occupied, width)
            /\ grid_pos' = [n \in DOMAIN grid_pos \cup {p.id} |->
                              IF n = p.id THEN p.cell ELSE grid_pos[n]]
            /\ occupied' = occupied \cup {p.cell}

\* C23 as stated: a node the BFS did not reach is placed, after the BFS, at
\* the first unoccupied cell in row-major order from (0, 0) over rows of
\* columns 0 to 9, and the cell is occupied from then on.
C23_ScanWidth10 == [][ScanPlacement(10)]_vars

-----------------------------------------------------------------------------
(* Diagrams handed to layout(): the layered strategy *)

La(k) == Id("l", k)

\* the layers as parse() leaves them: one layer; two; two of which the first
\* was declared again after the second (its order is that of the last
\* declaration, its place in the dict that of the first); one declared twice
LayerShapes ==
    { << Layer(La(1), None, None, 0) >>,
      << Layer(La(1), None, L_Web, 0), Layer(La(2), None, None, 1) >>,
      << Layer(La(1), None, None, 2), Layer(La(2), None, None, 1) >>,
      << Layer(La(1), None, None, 1) >> }

LayerParents == { None, La(1), La(2) }

\* two services, possibly a junction (with an id of its own or the id of the
\* first service), possibly a group, each in a layer or in none, and at most
\* one edge
LayeredDiagrams ==
    { [layers |-> l,
       services |-> << Service(Id("s", 1), None, None, p1),
                       Service(Id("s", 2), None, None, p2) >>,
       junctions |-> j, groups |-> g, edges |-> e] :
        l \in LayerShapes, p1 \in LayerParents, p2 \in LayerParents,
        j \in { <<>> } \cup { << Junction(id, p) >> :
                                id \in { Id("j", 1), Id("s", 1) }, p \in LayerParents },
        g \in { <<>> } \cup { << Group(G(1), None, None, p) >> : p \in LayerParents },
        e \in { <<>>, << Edge(Id("s", 1), "B", Id("s", 2), "T", TRUE) >> } }

InitLayered ==
    /\ diagram \in LayeredDiagrams
    /\ stage = "layout"
    /\ ParseIdle
    /\ LayoutIdle
    /\ RenderIdle

SpecLayered == InitLayered /\ [][NextLayered]_vars

\* the number of layers declared before the layer (by the order the parser
\* gave them)
RankOf(l) == Cardinality({ m \in Range(diagram.layers) : m.order < l.order })

\* the services, junctions and groups whose parent is the layer and that
\* their id denotes (the entities get_node can hand to the layout)
PositionedChildren(l) ==
    { e \in Range(diagram.services) \cup Range(diagram.junctions)
            \cup Range(diagram.groups) :
        e.parent = l.id /\ get_node(diagram, e.id) = e }

\* C24 as stated: after the layered layout the layer of rank k is at
\* y = canvas_padding + k * (layer_height + layer_spacing) + layer_height / 2,
\* a layer declared earlier lies strictly above one declared later,
\* consecutive layers are layer_height + layer_spacing apart, and every
\* positioned child of a layer has the y of its layer.
C24_LayersStacked ==
    (lpc = "done" /\ Len(input.layers) > 0) =>
        /\ \A l \in Range(diagram.layers) :
               /\ l.y = canvas_padding + RankOf(l) * (layer_height + layer_spacing)
                        + layer_height \div 2
               /\ \A c \in PositionedChildren(l) : c.y = l.y
        /\ \A a, b \in Range(diagram.layers) :
               /\ a.order < b.order => a.y < b.y
               /\ RankOf(b) = RankOf(a) + 1 => b.y - a.y = layer_height + layer_spacing

\* the children area of the claim: it starts right of the label column and
\* is as wide as the cells of the layer with the most children
AreaStart == canvas_padding + layer_label_width

AreaWidth ==
    Max({0} \cup { Len(get_children(diagram, l.id)) : l \in Range(diagram.layers) })
    * (node_width + node_spacing_x)

\* a layer with exactly one child has it at the horizontal centre of the
\* children area
SingleChildCentred ==
    \A l \in Range(diagram.layers) :
        LET children == get_children(diagram, l.id)
        IN  Len(children) = 1
            => get_node(diagram, children[1]).x = AreaStart + AreaWidth \div 2

\* a layer with two children or more has them node_width + node_spacing_x
\* apart, left to right in get_children order, inside the children area
SeveralChildrenSpaced ==
    \A l \in Range(diagram.layers) :
        LET children == get_children(diagram, l.id)
            Child(i) == get_node(diagram, children[i])
        IN  Len(children) >= 2
            => /\ \A i \in 1..(Len(children) - 1) :
                      Child(i + 1).x - Child(i).x = node_width + node_spacing_x
               /\ \A i \in DOMAIN children :
                      /\ AreaStart <= Left(Child(i))
                      /\ Right(Child(i)) <= AreaStart + AreaWidth

\* C25 as stated: after the layered layout a single child is at the centre
\* of the children area, and several children are evenly spaced, left to
\* right, inside it.
C25_ChildrenArea ==
    (lpc = "done" /\ Len(input.layers) > 0)
    => (SingleChildCentred /\ SeveralChildrenSpaced)

-----------------------------------------------------------------------------
(* Lines that have the form of a statement, with keywords as identifiers *)

\* a layer called service, a group called layer, a service called
\* architecture, a junction called group, an edge from the service
\* architecture, an edge to it, a comment, the header and an empty line
FormPool ==
    { Decl(KEYWORD.layer, KEYWORD.service, None, L_Web, None),
      Decl(KEYWORD.group, KEYWORD.layer, None, None, None),
      Decl(KEYWORD.service, KEYWORD.architecture, ICON.server, None, KEYWORD.layer),
      Decl(KEYWORD.junction, KEYWORD.group, None, None, None),
      EdgeText(KEYWORD.architecture, "R", Dash2 \o << ">" >>, "L", KEYWORD.group),
      EdgeText(KEYWORD.group, "B", Dash2, "T", KEYWORD.architecture),
      << "#" >> \o Decl(KEYWORD.service, Id("s", 1), None, None, None),
      KEYWORD.architecture \o << "-", "b", "e", "t", "a" >>,
      <<>> }

FormTexts ==
    { Join(f, << "\n" >>) :
        f \in UNION { [1..n -> FormPool] : n \in 0..MaxLines } }

InitForms ==
    /\ \E raw \in FormTexts : ParseEntered(raw)
    /\ LayoutIdle
    /\ RenderIdle

SpecForms == InitForms /\ [][NextParse]_vars

\* the lines the claim has ignored: blank, starting with '#', the header
Ignored(line) ==
    \/ line = <<>>
    \/ line[1] = "#"
    \/ line \in { KEYWORD.architecture,
                  KEYWORD.architecture \o << "-", "b", "e", "t", "a" >> }

\* the collections of the diagram other than the named one are as before
OthersSame(before, after, field) ==
    \A f \in DOMAIN before \ {field} : after[f] = before[f]

\* the entity the first matching pattern registers: the diagram after the
\* line, given the diagram before it
Registered(line, before, after) ==
    IF PATTERN_LAYER(line).matched
    THEN /\ PATTERN_LAYER(line).groups[1] \in Keys(after.layers)
         /\ OthersSame(before, after, "layers")
    ELSE IF PATTERN_GROUP(line).matched
    THEN /\ PATTERN_GROUP(line).groups[1] \in Keys(after.groups)
         /\ OthersSame(before, after, "groups")
    ELSE IF PATTERN_SERVICE(line).matched
    THEN /\ PATTERN_SERVICE(line).groups[1] \in Keys(after.services)
         /\ OthersSame(before, after, "services")
    ELSE IF PATTERN_JUNCTION(line).matched
    THEN /\ PATTERN_JUNCTION(line).groups[1] \in Keys(after.junctions)
         /\ OthersSame(before, after, "junctions")
    ELSE IF PATTERN_EDGE(line).matched
    THEN /\ Len(after.edges) = Len(before.edges) + 1
         /\ after.edges[Len(after.edges)].source_id = PATTERN_EDGE(line).groups[1]
         /\ after.edges[Len(after.edges)].target_id = PATTERN_EDGE(line).groups[5]
         /\ OthersSame(before, after, "edges")
    ELSE after = before

\* C26 as stated: a blank line, a line starting with '#' and the header
\* line leave the diagram as it was; every other line registers the entity
\* of the first pattern, in the order layer, group, service, junction, edge,
\* that matches it, whatever its identifiers are.
C26_FormRegisters ==
    \A k \in DOMAIN parsed :
        LET line == strip(parsed[k].line)
        IN  IF Ignored(line)
            THEN AfterLine(k) = parsed[k].before
            ELSE Registered(line, parsed[k].before, AfterLine(k))

\* the 2x2 block anchored at the cell, in the order the conflict loop walks it
Block2x2(cell) ==
    << cell, <<cell[1], cell[2] + 1>>, <<cell[1] + 1, cell[2] + 1>>,
       <<cell[1] + 1, cell[2]>> >>

-----------------------------------------------------------------------------
(* layout() applied to its own output *)

\* layout(diagram) is called again on the instance the first call returned
LayoutOnOutput ==
    /\ lpc = "done"
    /\ stage = "render"
    /\ run = 1
    /\ \A c \in DOMAIN rc : rc[c].pc = "idle"
    /\ first' = [origin |-> origin, diagram |-> diagram, grid_pos |-> grid_pos]
    /\ run' = 2
    /\ lpc' = "start"
    /\ stage' = "layout"
    /\ UNCHANGED <<parseVars, diagram, input, gridVars, gi, lay, renderVars>>

NextTwice ==
    \/ NextLayout
    \/ LayoutOnOutput

SpecTwice == InitRerun /\ [][NextTwice]_vars

\* C28 as stated: a second layout() of the instance already laid out, from
\* the same origin and with the unreached nodes in the same cells, leaves
\* the coordinates and boxes of every service, junction and group as the
\* first left them.
C28_Idempotent ==
    (run = 2 /\ lpc = "done" /\ origin = first.origin /\ grid_pos = first.grid_pos)
    => /\ diagram.services = first.diagram.services
       /\ diagram.junctions = first.diagram.junctions
       /\ diagram.groups = first.diagram.groups

-----------------------------------------------------------------------------
(* Edge ends that are neither a service nor a junction *)

EdgeEnds == { e.source_id : e \in Range(diagram.edges) }
            \cup { e.target_id : e \in Range(diagram.edges) }

\* the edge ends that are not in all_nodes: ids of groups and ids declared
\* as nothing
OtherEnds == EdgeEnds \ (Keys(diagram.services) \cup Keys(diagram.junctions))

Undeclared == OtherEnds \ (Keys(diagram.groups) \cup Keys(diagram.layers))

\* what holds of these ids in either reading of the claim: they are keys of
\* the adjacency and never the origin; the cell of one that was visited is
\* occupied; the pixel centres of the nodes are taken from the bounds of all
\* assigned cells; the layout adds no entity; after centering the leftmost
\* and topmost edges of the services and junctions are at canvas_padding
OtherEndsKept ==
    LET nodes == Range(diagram.services) \cup Range(diagram.junctions)
        min_row == Min({ grid_pos[n][1] : n \in DOMAIN grid_pos })
        min_col == Min({ grid_pos[n][2] : n \in DOMAIN grid_pos })
    IN  /\ OtherEnds \subseteq DOMAIN adj
        /\ origin \notin OtherEnds
        /\ \A id \in OtherEnds :
               /\ id \in visited <=> id \in DOMAIN grid_pos
               /\ id \in visited => grid_pos[id] \in occupied
        /\ (lpc = "groups" /\ gi = 1)
           => \A n \in nodes :
                  /\ n.x = canvas_padding
                           + (grid_pos[n.id][2] - min_col) * (node_width + node_spacing_x)
                           + node_width \div 2
                  /\ n.y = canvas_padding
                           + (grid_pos[n.id][1] - min_row) * (node_height + node_spacing_y)
                           + node_height \div 2
        /\ \A f \in {"services", "junctions", "groups", "layers"} :
               Keys(diagram[f]) = Keys(input[f])
        /\ (lpc = "done" /\ nodes # {})
           => /\ Min({ Left(n) : n \in nodes }) = canvas_padding
              /\ Min({ Top(n) : n \in nodes }) = canvas_padding

\* C29 as stated: after grid assignment every edge end that is neither a
\* service nor a junction has been traversed by the BFS and has a grid cell,
\* which is occupied and enters the normalisation; it is never the origin, no
\* entity is made for it, and centering puts the nodes at canvas_padding.
C29_OtherEndsPlaced ==
    GridAssigned =>
        /\ OtherEndsKept
        /\ OtherEnds \subseteq visited

\* C29, amended: as stated for the edge ends the BFS reaches from the
\* origin (an edge with one end visited has both ends visited); an edge end
\* that is neither a service nor a junction and is not connected to the
\* origin has no cell at all.
C29_OtherEndsPlacedIfReached ==
    GridAssigned =>
        /\ OtherEndsKept
        /\ \A e \in Range(diagram.edges) :
               e.source_id \in visited <=> e.target_id \in visited
        /\ \A id \in DOMAIN grid_pos \ visited : id \notin OtherEnds

\* the layout is over; an undeclared id holds the leftmost cell of the grid,
\* left of every service, and the id of a group the topmost; the services
\* are at canvas_padding all the same
C29_Witness ==
    /\ lpc = "done"
    /\ \E id \in Undeclared :
           /\ id \in visited
           /\ \A n \in all_nodes(diagram) : grid_pos[id][2] < grid_pos[n][2]
    /\ \E id \in OtherEnds \cap Keys(diagram.groups) :
           /\ id \in visited
           /\ \A n \in all_nodes(diagram) : grid_pos[id][1] < grid_pos[n][1]

-----------------------------------------------------------------------------
(* The arrow flag *)

\* the edges of the diagram whose two ends resolve, in list order
Drawn == LET Ok(e) == Resolves(diagram, e.source_id) /\ Resolves(diagram, e.target_id)
         IN  SelectSeq(diagram.edges, Ok)

\* the same edge written with the other connector
OtherConnector(edge) == [edge EXCEPT !.has_arrow = ~@]

\* C30: when parse() has returned, the arrow flag of the edge a line added
\* is true exactly when the line holds '>'; in a document render() returned,
\* every resolvable edge, flagged or not, has an arrow layer with the dashed
\* group Line and the closed group Head whose tip is at the target port, and
\* the layer is the one the edge would get with the other connector.
C30_FlagSetNotRead ==
    /\ (stage = "layout" /\ lpc = "start")
       => \A k \in DOMAIN parsed :
              LET before == parsed[k].before.edges
                  after == AfterLine(k).edges
              IN  Len(after) > Len(before)
                  => (after[Len(after)].has_arrow <=> ">" \in Range(parsed[k].line))
    /\ \A doc \in AtReturn :
           LET arrows == Block(doc, "arrows")
           IN  /\ Len(arrows) = Len(Drawn)
               /\ \A i \in DOMAIN arrows :
                      LET edge == Drawn[i]
                          shapes == arrows[i].shapes
                      IN  /\ [s \in DOMAIN shapes |-> shapes[s].nm] = <<"Line", "Head">>
                          /\ shapes[1].d # <<>> /\ ~shapes[1].c
                          /\ shapes[2].c
                          /\ shapes[2].v[1] =
                                 get_port_position(get_node(diagram, edge.target_id),
                                                   edge.target_dir)
                          /\ << arrows[i] >> =
                                 render_arrow(OtherConnector(edge), diagram, doc.op,
                                              arrows[i].ind)

\* a document with the arrow layer of an edge that was written with '--',
\* between boxes the layout has placed
C30_Witness ==
    /\ lpc = "done"
    /\ \E doc \in AtReturn :
           /\ Len(Block(doc, "arrows")) = 1
           /\ Len(Drawn) = 1
           /\ ~Drawn[1].has_arrow
           /\ get_node(diagram, Drawn[1].target_id).x > 0
           /\ \E k \in DOMAIN parsed : ">" \notin Range(parsed[k].line)
                                       /\ EdgeOfLine(parsed[k].line) = << Drawn[1] >>

=============================================================================
